---- MODULE Spec2Model ----
(***************************************************************************)
(* Request orchestration of multi_ai_recs.py: the fan-out coordinator      *)
(* run_models, the dispatcher _call_openrouter, the streaming transport    *)
(* _call_openrouter_stream and the batch transport _call_openrouter_batch. *)
(*                                                                         *)
(* A text is a sequence of one-character strings, an error message a       *)
(* sequence of tokens, a dict a function whose domain is its key set.      *)
(* Each await on the network is one step of the model; the code between    *)
(* two awaits of one task runs inside one action.                          *)
(***************************************************************************)
EXTENDS Integers, Sequences, FiniteSets, TLC

\* ------------------------------------------------------------------------
\* Bounds
\* ------------------------------------------------------------------------
\* longest model list handed to run_models in the fan-out specification
MaxModels == 2
\* longest request text and sources text handed to build_user_prompt
MaxText == 3
\* most content / reasoning deltas one stream delivers
MaxParts == 2

\* ------------------------------------------------------------------------
\* Model registry
\* ------------------------------------------------------------------------
DEFAULT_GPT_MODEL_ID == "openai/gpt-5.2"
DEFAULT_GEMINI_MODEL_ID == "google/gemini-3.1-pro-preview"
DEFAULT_OPUS_MODEL_ID == "anthropic/claude-opus-4.5"

ModelIds == {DEFAULT_GPT_MODEL_ID, DEFAULT_GEMINI_MODEL_ID, DEFAULT_OPUS_MODEL_ID}

DEFAULT_MAX_TOKENS == 4096

EmptyDict == [k \in {} |-> TRUE]

\* MODEL_REASONING_OVERHEAD.get(model_id, 0)
MODEL_REASONING_OVERHEAD(model_id) ==
    IF model_id \in {DEFAULT_GPT_MODEL_ID, DEFAULT_GEMINI_MODEL_ID} THEN 4096 ELSE 0

\* MODEL_EXTRA_PARAMS.get(model_id, {})
MODEL_EXTRA_PARAMS(model_id) ==
    CASE model_id = DEFAULT_GPT_MODEL_ID -> [reasoning |-> [effort |-> "high"]]
      [] model_id = DEFAULT_GEMINI_MODEL_ID -> [reasoning |-> [max_tokens |-> 4096]]
      [] OTHER -> EmptyDict

MODELS_WITH_RETRY == {DEFAULT_GPT_MODEL_ID, DEFAULT_GEMINI_MODEL_ID}

\* the override the batch retry passes as extra_params
REDUCED_REASONING == [reasoning |-> [max_tokens |-> 512]]

\* ------------------------------------------------------------------------
\* Texts
\* ------------------------------------------------------------------------
IsSpace(c) == c \in {" ", "\n"}

RECURSIVE LStrip(_)
LStrip(s) == IF s # <<>> /\ IsSpace(Head(s)) THEN LStrip(Tail(s)) ELSE s

RECURSIVE RStrip(_)
RStrip(s) ==
    IF s # <<>> /\ IsSpace(s[Len(s)]) THEN RStrip(SubSeq(s, 1, Len(s) - 1)) ELSE s

\* str.strip()
Strip(s) == RStrip(LStrip(s))

\* "".join(parts)
RECURSIVE Join(_)
Join(parts) == IF parts = <<>> THEN <<>> ELSE Head(parts) \o Join(Tail(parts))

Max(a, b) == IF a >= b THEN a ELSE b
Min(a, b) == IF a <= b THEN a ELSE b

\* RetryMaxTokens without the cap of 16000
RetryMaxTokensUncapped(max_tokens) == Max(max_tokens * 3, 8000)

\* min(max(max_tokens * 3, 8000), 16000)
RetryMaxTokens(max_tokens) == Min(Max(max_tokens * 3, 8000), 16000)

EMPTY_RESPONSE == <<"Empty response from model">>

\* result.get(key) == value
GetIs(result, key, value) == key \in DOMAIN result /\ result[key] = value

\* result[key] = value
SetKey(result, key, value) == (key :> value) @@ result

\* the condition both retry sites test
ShouldRetry(model_id, result) ==
    /\ model_id \in MODELS_WITH_RETRY
    /\ GetIs(result, "error", EMPTY_RESPONSE)
    /\ GetIs(result, "finish_reason", "length")

\* ------------------------------------------------------------------------
\* Request payloads
\* ------------------------------------------------------------------------
\* BatchPayload that merges the override into the model's reasoning object
\* field by field
BatchPayloadMerged(model_id, effective_max_tokens, extra_params) ==
    (IF "reasoning" \in DOMAIN extra_params
        /\ "reasoning" \in DOMAIN MODEL_EXTRA_PARAMS(model_id)
     THEN [reasoning |-> extra_params.reasoning @@ MODEL_EXTRA_PARAMS(model_id).reasoning]
     ELSE EmptyDict) @@
    extra_params @@ MODEL_EXTRA_PARAMS(model_id) @@
    [model |-> model_id,
     max_tokens |-> effective_max_tokens + MODEL_REASONING_OVERHEAD(model_id)]

\* the payload of _call_openrouter_batch._post
BatchPayload(model_id, effective_max_tokens, extra_params) ==
    extra_params @@ MODEL_EXTRA_PARAMS(model_id) @@
    [model |-> model_id,
     max_tokens |-> effective_max_tokens + MODEL_REASONING_OVERHEAD(model_id)]

\* StreamPayload with the raw caller budget on the wire
StreamPayloadRaw(model_id, max_tokens_arg) ==
    MODEL_EXTRA_PARAMS(model_id) @@
    [model |-> model_id, max_tokens |-> max_tokens_arg, stream |-> TRUE]

\* the payload of _call_openrouter_stream
StreamPayload(model_id, max_tokens_arg) ==
    MODEL_EXTRA_PARAMS(model_id) @@
    [model |-> model_id,
     max_tokens |-> max_tokens_arg + MODEL_REASONING_OVERHEAD(model_id),
     stream |-> TRUE]

\* ------------------------------------------------------------------------
\* Batch transport: what one _post makes of a response
\* ------------------------------------------------------------------------
HTTP_BODY_LIMIT == 300

\* Take that cuts nothing off
TakeAll(s, n) == s

\* s[:n]
Take(s, n) == SubSeq(s, 1, Min(Len(s), n))

\* d.get(key) or default, for a key whose value (when present) is truthy
GetOr(d, key, default) == IF key \in DOMAIN d THEN d[key] ELSE default

\* one element of a structured content list, as _coerce_content_to_text reads it
CoercePart(part) ==
    CASE part.t = "str" -> part.s
      [] part.t = "dict" /\ "text" \in DOMAIN part.d -> part.d.text
      [] OTHER -> <<>>

RECURSIVE CoerceParts(_)
CoerceParts(parts) ==
    IF parts = <<>> THEN <<>> ELSE CoercePart(Head(parts)) \o CoerceParts(Tail(parts))

\* _coerce_content_to_text(content)
_coerce_content_to_text(content) ==
    CASE content.t = "none" -> <<>>
      [] content.t = "str" -> content.s
      [] content.t = "list" -> CoerceParts(content.parts)
      [] OTHER -> <<>>

\* EnvelopeMessage that never reads the message field
EnvelopeMessageRepr(err) == <<"str(err)">>

\* the message of an error envelope: err.get("message") or str(err)
EnvelopeMessage(err) ==
    IF err.t = "dict" /\ "message" \in DOMAIN err.d /\ err.d.message # <<>>
    THEN err.d.message
    ELSE <<"str(err)">>

\* PostResult whose empty-response dict also carries an empty content field
PostResultBoth(resp, started) ==
    IF resp.t = "http"
    THEN [error |-> <<"HTTP", resp.status>> \o Take(resp.body, HTTP_BODY_LIMIT)]
    ELSE LET data == resp.data IN
         IF "error" \in DOMAIN data
         THEN [error |-> EnvelopeMessage(data.error)]
         ELSE LET choices == GetOr(data, "choices", <<>>) IN
              IF choices = <<>>
              THEN [error |-> <<"Unexpected response structure">>]
              ELSE LET choice0 == choices[1]
                       message == GetOr(choice0, "message", EmptyDict)
                       content == _coerce_content_to_text(
                                      GetOr(message, "content", [t |-> "none"]))
                       finish_reason == GetOr(choice0, "finish_reason", "None")
                       reasoning == GetOr(message, "reasoning", <<>>)
                   IN IF content # <<>>
                      THEN [content |-> Strip(content),
                            finish_reason |-> finish_reason,
                            elapsed_seconds |-> started]
                      ELSE [content |-> <<>>,
                            error |-> EMPTY_RESPONSE,
                            finish_reason |-> finish_reason,
                            has_reasoning |-> (reasoning # <<>>)]

\* the dict _post returns for a response that raised nothing;
\* started is the request from whose sending the elapsed time is measured
PostResult(resp, started) ==
    IF resp.t = "http"
    THEN [error |-> <<"HTTP", resp.status>> \o Take(resp.body, HTTP_BODY_LIMIT)]
    ELSE LET data == resp.data IN
         IF "error" \in DOMAIN data
         THEN [error |-> EnvelopeMessage(data.error)]
         ELSE LET choices == GetOr(data, "choices", <<>>) IN
              IF choices = <<>>
              THEN [error |-> <<"Unexpected response structure">>]
              ELSE LET choice0 == choices[1]
                       message == GetOr(choice0, "message", EmptyDict)
                       content == _coerce_content_to_text(
                                      GetOr(message, "content", [t |-> "none"]))
                       finish_reason == GetOr(choice0, "finish_reason", "None")
                       reasoning == GetOr(message, "reasoning", <<>>)
                   IN IF content # <<>>
                      THEN [content |-> Strip(content),
                            finish_reason |-> finish_reason,
                            elapsed_seconds |-> started]
                      ELSE [error |-> EMPTY_RESPONSE,
                            finish_reason |-> finish_reason,
                            has_reasoning |-> (reasoning # <<>>)]

\* BatchExceptResult with the ClientError clause tried first: a timeout is
\* reported as a network error
BatchExceptResultSwapped(exc) ==
    CASE exc \in {"TimeoutError", "ClientError"} -> [error |-> <<"Network error: ", "str(e)">>]
      [] OTHER -> [error |-> <<"Unexpected error: ", "str(e)">>]

\* the dict the except clauses of _call_openrouter_batch return
BatchExceptResult(exc) ==
    CASE exc = "TimeoutError" -> [error |-> <<"Timeout after", "timeout_seconds">>]
      [] exc = "ClientError" -> [error |-> <<"Network error: ", "str(e)">>]
      [] OTHER -> [error |-> <<"Unexpected error: ", "str(e)">>]

\* "elapsed_seconds" is added to a result that lacks it
WithElapsed(result, started) ==
    IF "elapsed_seconds" \in DOMAIN result
    THEN result
    ELSE SetKey(result, "elapsed_seconds", started)

\* the two retry annotations
Annotate(result, retry_max_tokens) ==
    SetKey(SetKey(result, "retried_with_max_tokens", retry_max_tokens),
           "retried_reasoning_effort", "medium")

\* ------------------------------------------------------------------------
\* Streaming transport: what _stream_inner makes of one line
\* ------------------------------------------------------------------------
\* StreamChunk that also puts a reasoning delta into the content
StreamChunkMixed(st, chunk) ==
    IF chunk.t # "dict"
    THEN [ctl |-> "raise", st |-> st]
    ELSE IF "error" \in DOMAIN chunk.d
    THEN [ctl |-> "return", st |-> st,
          ret |-> [error |-> <<"Stream error: ">> \o EnvelopeMessage(chunk.d.error)]]
    ELSE LET choices == GetOr(chunk.d, "choices", <<>>) IN
         IF choices = <<>>
         THEN [ctl |-> "continue", st |-> st]
         ELSE IF choices[1].t # "dict"
         THEN [ctl |-> "raise", st |-> st]
         ELSE LET choice0 == choices[1].d
                  delta == GetOr(choice0, "delta", EmptyDict)
                  c == GetOr(delta, "content", <<>>)
                  r == GetOr(delta, "reasoning", <<>>)
                  fr == GetOr(choice0, "finish_reason", "None")
              IN [ctl |-> "continue",
                  st |-> [content_parts |->
                              IF c # <<>> THEN Append(st.content_parts, c)
                              ELSE IF r # <<>> THEN Append(st.content_parts, r)
                              ELSE st.content_parts,
                          reasoning_parts |->
                              IF r # <<>> THEN Append(st.reasoning_parts, r)
                              ELSE st.reasoning_parts,
                          finish_reason |->
                              IF fr # "None" THEN fr ELSE st.finish_reason]]

\* st = [content_parts, reasoning_parts, finish_reason]; the answer says how
\* the loop goes on: "continue", "break", "return" (with ret) or "raise"
StreamChunk(st, chunk) ==
    IF chunk.t # "dict"
    THEN [ctl |-> "raise", st |-> st]
    ELSE IF "error" \in DOMAIN chunk.d
    THEN [ctl |-> "return", st |-> st,
          ret |-> [error |-> <<"Stream error: ">> \o EnvelopeMessage(chunk.d.error)]]
    ELSE LET choices == GetOr(chunk.d, "choices", <<>>) IN
         IF choices = <<>>
         THEN [ctl |-> "continue", st |-> st]
         ELSE IF choices[1].t # "dict"
         THEN [ctl |-> "raise", st |-> st]
         ELSE LET choice0 == choices[1].d
                  delta == GetOr(choice0, "delta", EmptyDict)
                  c == GetOr(delta, "content", <<>>)
                  r == GetOr(delta, "reasoning", <<>>)
                  fr == GetOr(choice0, "finish_reason", "None")
              IN [ctl |-> "continue",
                  st |-> [content_parts |->
                              IF c # <<>> THEN Append(st.content_parts, c)
                              ELSE st.content_parts,
                          reasoning_parts |->
                              IF r # <<>> THEN Append(st.reasoning_parts, r)
                              ELSE st.reasoning_parts,
                          finish_reason |->
                              IF fr # "None" THEN fr ELSE st.finish_reason]]

\* StreamStep in which a fragment without finish reason clears the finish
\* reason seen so far
StreamStepClearing(st, line) ==
    CASE line.t \in {"blank", "comment", "noprefix"} -> [ctl |-> "continue", st |-> st]
      [] line.t = "done" -> [ctl |-> "break", st |-> st]
      [] line.t = "badjson" -> [ctl |-> "continue", st |-> st]
      [] OTHER ->
           LET step == StreamChunk(st, line.chunk)
               ch == line.chunk
           IN IF /\ step.ctl = "continue"
                 /\ GetOr(ch.d, "choices", <<>>) # <<>>
                 /\ "finish_reason" \notin DOMAIN ch.d.choices[1].d
              THEN [step EXCEPT !.st.finish_reason = "None"]
              ELSE step

\* what the loop of _stream_inner makes of one line
StreamStep(st, line) ==
    CASE line.t \in {"blank", "comment", "noprefix"} -> [ctl |-> "continue", st |-> st]
      [] line.t = "done" -> [ctl |-> "break", st |-> st]
      [] line.t = "badjson" -> [ctl |-> "continue", st |-> st]
      [] OTHER -> StreamChunk(st, line.chunk)

\* StreamFinal that tests the text before trimming it, as the batch _post does
StreamFinalUntrimmedTest(st) ==
    LET content == Join(st.content_parts) IN
    IF content # <<>>
    THEN [content |-> Strip(content),
          finish_reason |-> st.finish_reason,
          elapsed_seconds |-> 1,
          streamed |-> TRUE]
    ELSE [error |-> EMPTY_RESPONSE,
          finish_reason |-> st.finish_reason,
          has_reasoning |-> (st.reasoning_parts # <<>>),
          elapsed_seconds |-> 1,
          streamed |-> TRUE]

\* the code after the loop of _stream_inner
StreamFinal(st) ==
    LET content == Strip(Join(st.content_parts)) IN
    IF content # <<>>
    THEN [content |-> content,
          finish_reason |-> st.finish_reason,
          elapsed_seconds |-> 1,
          streamed |-> TRUE]
    ELSE [error |-> EMPTY_RESPONSE,
          finish_reason |-> st.finish_reason,
          has_reasoning |-> (st.reasoning_parts # <<>>),
          elapsed_seconds |-> 1,
          streamed |-> TRUE]

\* ------------------------------------------------------------------------
\* State
\* ------------------------------------------------------------------------
VARIABLES
    models,      \* run_models: the list of <<label, model_id>>
    max_tokens,  \* run_models: the caller's visible budget
    stream,      \* run_models: FALSE under --no-stream
    fan_pc,      \* run_models: "create", "await", "returned" or "raised"
    fan_idx,     \* run_models: index of the loop it is in
    out,         \* run_models: label -> result
    returned,    \* what run_models returned
    calls,       \* one record per task, see NewCall
    completed,   \* the tasks that ran to their end, in the order they did
    tool,        \* the command-line tool that runs
    cli,         \* main() of the tool, see CliPast
    prompt,      \* build_user_prompt: its arguments and what it returned
    slides       \* generate_with_evaluation of gemini_slides.py, see NoSlides

vars == <<models, max_tokens, stream, fan_pc, fan_idx, out, returned, calls, completed,
          tool, cli, prompt, slides>>

inputVars == <<models, max_tokens, stream, tool, cli, prompt, slides>>
fanVars == <<fan_pc, fan_idx, out, returned>>

N == Len(models)
Calls == 1..N
Label(i) == models[i][1]
ModelId(i) == models[i][2]

NoStream == [content_parts |-> <<>>, reasoning_parts |-> <<>>, finish_reason |-> "None"]

\* pc: "uncreated", "created", "stream_post", "stream_read", "batch_post",
\*     "batch_retry", "done", "raised", "cancelled"
\* path: the place in _call_openrouter: "start", "stream", "retry" (the batch
\*     call of line 506), "fallback" (line 523 after the except clause),
\*     "batch" (line 523 under stream = FALSE)
\* sent: the payloads posted so far
\* ended: for each finished request, the dict its transport made of the
\*     response, or [exception |-> name] when the request raised
\* batch_max_tokens, started: the max_tokens argument and the start time of
\*     the running _call_openrouter_batch (the request it begins with)
\* st: content_parts, reasoning_parts, finish_reason of the running stream
\* result: what the task returned
NewCall ==
    [pc |-> "uncreated", path |-> "start", sent |-> <<>>, ended |-> <<>>,
     batch_max_tokens |-> 0, started |-> 0, st |-> NoStream, result |-> EmptyDict]

Finished(i) == calls[i].pc \in {"done", "raised", "cancelled"}

\* cli while the orchestrator runs: main() has found its credential and
\* called asyncio.run
\* pc: "main" (before the checks), "request" (the checks passed), "exit"
\* environ, dotenv: the variable names set in os.environ and in the .env file
\* has_input: the prompt, query or URL the tool needs was given
\* smoke_test: --test of gemini_slides.py
\* exit_code: the exit status, -1 while the tool runs
\* requests: the network requests main() has sent
CliPast ==
    [pc |-> "request", environ |-> {"OPENROUTER_API_KEY"}, dotenv |-> {},
     has_input |-> TRUE, smoke_test |-> FALSE, exit_code |-> -1, requests |-> 0]

\* prompt while build_user_prompt is not under study
NoPrompt == [pc |-> "idle"]

\* slides while generate_with_evaluation is not under study; while it is:
\* pc: "loop" (at the head of the for loop), "evaluate", "returned", "raised"
\* max_cycles, style_spec: the arguments, style_spec FALSE when it is empty
\* cycle, current_prompt, image_bytes, model_used: the locals of that name
\* rounds: the calls of generate_with_fallback so far
\* sent: the prompt each of them was given
\* ret: the triple returned, or the name of the exception raised
NoSlides == [pc |-> "idle"]

\* ------------------------------------------------------------------------
\* Inputs
\* ------------------------------------------------------------------------
Budgets == {500, 4096, 16000}

Statuses == {"200", "500"}
\* an error body one character longer than what the transports keep of it
LongBody == [k \in 1..(HTTP_BODY_LIMIT + 1) |-> "x"]
Bodies == {<<"r", "a", "t", "e">>, LongBody}

Chunks == {<<"H", "e", "l">>, <<"l", "o">>, <<" ">>}
FinishReasons == {"length", "stop"}

Opt(present, key, value) == IF present THEN (key :> value) ELSE EmptyDict

ErrorEnvelopes == {[t |-> "dict", d |-> [message |-> <<"b", "o", "o", "m">>]],
                   [t |-> "dict", d |-> [code |-> <<"4", "2", "9">>]],
                   [t |-> "str", s |-> <<"b", "a", "d">>]}

\* a data line whose JSON is an object with one choice
DeltaLines ==
    {[t |-> "json",
      chunk |-> [t |-> "dict",
                 d |-> [choices |-> <<[t |-> "dict",
                     d |-> Opt(f # "None", "finish_reason", f) @@
                           [delta |-> Opt(c # <<>>, "content", c) @@
                                      Opt(r, "reasoning", <<"t">>)]]>>]]] :
        c \in Chunks \cup {<<>>}, r \in BOOLEAN, f \in FinishReasons \cup {"None"}}

Lines ==
    {[t |-> "blank"], [t |-> "comment"], [t |-> "noprefix"], [t |-> "done"],
     [t |-> "badjson"],
     [t |-> "json", chunk |-> [t |-> "scalar"]],
     [t |-> "json", chunk |-> [t |-> "dict", d |-> EmptyDict]],
     [t |-> "json", chunk |-> [t |-> "dict", d |-> [choices |-> <<>>]]],
     [t |-> "json", chunk |-> [t |-> "dict", d |-> [choices |-> <<[t |-> "scalar"]>>]]]}
    \cup {[t |-> "json", chunk |-> [t |-> "dict", d |-> [error |-> e]]] :
             e \in ErrorEnvelopes}
    \cup DeltaLines

StreamExceptions == {"ClientError", "StallTimeout", "SafetyCap"}

Contents ==
    {[t |-> "none"],
     [t |-> "str", s |-> <<" ">>],
     [t |-> "str", s |-> <<" ", "o", "k", " ">>],
     [t |-> "list", parts |-> <<[t |-> "str", s |-> <<"o">>],
                                [t |-> "dict", d |-> [type |-> "tool_call"]],
                                [t |-> "dict", d |-> [text |-> <<"k">>]]>>]}

\* a 200 response whose JSON is an object with one choice
ChoiceResponses ==
    {[t |-> "json",
      data |-> [choices |-> <<Opt(f # "None", "finish_reason", f) @@
                              [message |-> Opt(r, "reasoning", <<"t">>) @@
                                           [content |-> c]]>>]] :
        c \in Contents, r \in BOOLEAN, f \in FinishReasons \cup {"None"}}

Responses ==
    {[t |-> "http", status |-> "500", body |-> b] : b \in Bodies}
    \cup {[t |-> "json", data |-> [error |-> e]] : e \in ErrorEnvelopes}
    \cup {[t |-> "json", data |-> EmptyDict]}
    \cup ChoiceResponses

BatchExceptions == {"TimeoutError", "ClientError", "Exception"}

SingleModelLists == {<< <<"A", id>> >> : id \in ModelIds}

\* ------------------------------------------------------------------------
\* Initial states
\* ------------------------------------------------------------------------
InitWith(lists, budgets, flags) ==
    /\ tool = "recs"
    /\ cli = CliPast
    /\ prompt = NoPrompt
    /\ slides = NoSlides
    /\ models \in lists
    /\ max_tokens \in budgets
    /\ stream \in flags
    /\ fan_pc = "create"
    /\ fan_idx = 1
    /\ out = EmptyDict
    /\ returned = EmptyDict
    /\ calls = [i \in 1..Len(models) |-> NewCall]
    /\ completed = <<>>

Init == InitWith(SingleModelLists, Budgets, BOOLEAN)

\* ------------------------------------------------------------------------
\* _call_openrouter and the two transports, as steps of task i
\* ------------------------------------------------------------------------
SetCall(i, c) ==
    /\ calls' = [calls EXCEPT ![i] = c]
    /\ completed' = IF c.pc \in {"done", "raised"} THEN Append(completed, i)
                    ELSE completed

\* return result from _call_openrouter: the task is done
CallReturn(c, result) ==
    [c EXCEPT !.pc = "done", !.result = result, !.st = NoStream]

\* _call_openrouter_batch is entered with max_tokens = budget: it posts its
\* first request
BatchEnter(c, model_id, path, budget) ==
    [c EXCEPT !.pc = "batch_post",
              !.path = path,
              !.sent = Append(@, BatchPayload(model_id, budget, EmptyDict)),
              !.batch_max_tokens = budget,
              !.started = Len(c.sent) + 1,
              !.st = NoStream]

\* _call_openrouter_batch returns result to its call site in _call_openrouter
BatchReturn(c, result) ==
    IF c.path = "retry"
    THEN CallReturn(c, Annotate(result, RetryMaxTokens(max_tokens)))
    ELSE CallReturn(c, result)

\* _call_openrouter_stream returned result: lines 497-516 of _call_openrouter
StreamReturn(c, model_id, result) ==
    IF ShouldRetry(model_id, result)
    THEN BatchEnter(c, model_id, "retry", RetryMaxTokens(max_tokens))
    ELSE CallReturn(c, result)

\* CallStart of a fan-out that awaits each task right after creating it
CallStartSerial(i) ==
    /\ fan_pc = "await"
    /\ calls[i].pc = "created"
    /\ \A j \in 1..(i - 1) : calls[j].pc \in {"done", "raised", "cancelled"}
    /\ IF stream
       THEN SetCall(i, [calls[i] EXCEPT
                !.pc = "stream_post",
                !.path = "stream",
                !.sent = <<StreamPayload(ModelId(i), max_tokens)>>])
       ELSE SetCall(i, BatchEnter(calls[i], ModelId(i), "batch", max_tokens))
    /\ UNCHANGED <<inputVars, fanVars>>

\* the event loop runs task i for the first time
CallStart(i) ==
    /\ fan_pc = "await"
    /\ calls[i].pc = "created"
    /\ IF stream
       THEN SetCall(i, [calls[i] EXCEPT
                !.pc = "stream_post",
                !.path = "stream",
                !.sent = <<StreamPayload(ModelId(i), max_tokens)>>])
       ELSE SetCall(i, BatchEnter(calls[i], ModelId(i), "batch", max_tokens))
    /\ UNCHANGED <<inputVars, fanVars>>

\* the response head of the streaming request arrives
StreamStatus(i, status, body) ==
    /\ calls[i].pc = "stream_post"
    /\ IF status # "200"
       THEN LET result == [error |-> <<"HTTP", status>> \o Take(body, HTTP_BODY_LIMIT)]
            IN SetCall(i, StreamReturn([calls[i] EXCEPT !.ended = Append(@, result)],
                                       ModelId(i), result))
       ELSE SetCall(i, [calls[i] EXCEPT !.pc = "stream_read"])
    /\ UNCHANGED <<inputVars, fanVars>>

\* StreamLine that lets the JSONDecodeError of an invalid data line escape
StreamLineStrict(i, line) ==
    /\ calls[i].pc = "stream_read"
    /\ LET c == calls[i]
           step == IF line.t = "badjson"
                   THEN [ctl |-> "raise", st |-> c.st]
                   ELSE StreamStep(c.st, line)
       IN /\ Len(step.st.content_parts) <= MaxParts
          /\ Len(step.st.reasoning_parts) <= MaxParts
          /\ CASE step.ctl = "continue" ->
                    SetCall(i, [c EXCEPT !.st = step.st])
               [] step.ctl = "break" ->
                    SetCall(i, StreamReturn(
                        [c EXCEPT !.ended = Append(@, StreamFinal(c.st))],
                        ModelId(i), StreamFinal(c.st)))
               [] step.ctl = "return" ->
                    SetCall(i, StreamReturn(
                        [c EXCEPT !.ended = Append(@, step.ret)],
                        ModelId(i), step.ret))
               [] OTHER ->
                    SetCall(i, [c EXCEPT !.pc = "raised",
                                         !.ended = Append(@, [exception |-> "TypeError"]),
                                         !.st = NoStream])
    /\ UNCHANGED <<inputVars, fanVars>>

\* one line of the event stream arrives
StreamLine(i, line) ==
    /\ calls[i].pc = "stream_read"
    /\ LET c == calls[i]
           step == StreamStep(c.st, line)
       IN /\ Len(step.st.content_parts) <= MaxParts
          /\ Len(step.st.reasoning_parts) <= MaxParts
          /\ CASE step.ctl = "continue" ->
                    SetCall(i, [c EXCEPT !.st = step.st])
               [] step.ctl = "break" ->
                    SetCall(i, StreamReturn(
                        [c EXCEPT !.ended = Append(@, StreamFinal(c.st))],
                        ModelId(i), StreamFinal(c.st)))
               [] step.ctl = "return" ->
                    SetCall(i, StreamReturn(
                        [c EXCEPT !.ended = Append(@, step.ret)],
                        ModelId(i), step.ret))
               [] OTHER ->
                    SetCall(i, [c EXCEPT !.pc = "raised",
                                         !.ended = Append(@, [exception |-> "TypeError"]),
                                         !.st = NoStream])
    /\ UNCHANGED <<inputVars, fanVars>>

\* the body of the streaming response ends without a terminal marker
StreamEnd(i) ==
    /\ calls[i].pc = "stream_read"
    /\ LET c == calls[i] IN
       SetCall(i, StreamReturn([c EXCEPT !.ended = Append(@, StreamFinal(c.st))],
                               ModelId(i), StreamFinal(c.st)))
    /\ UNCHANGED <<inputVars, fanVars>>

\* the streaming request raises aiohttp.ClientError (exc = "ClientError"), the
\* sock_read timeout ("StallTimeout") or the wait_for timeout ("SafetyCap"):
\* the except clause of _call_openrouter, then the batch call of line 523
StreamFail(i, exc) ==
    /\ calls[i].pc \in {"stream_post", "stream_read"}
    /\ SetCall(i, BatchEnter([calls[i] EXCEPT !.ended = Append(@, [exception |-> exc])],
                             ModelId(i), "fallback", max_tokens))
    /\ UNCHANGED <<inputVars, fanVars>>

\* the response of the first _post arrives
BatchResponse(i, resp) ==
    /\ calls[i].pc = "batch_post"
    /\ LET result == PostResult(resp, calls[i].started)
           c == [calls[i] EXCEPT !.ended = Append(@, result)]
       IN IF ShouldRetry(ModelId(i), result)
          THEN SetCall(i, [c EXCEPT
                   !.pc = "batch_retry",
                   !.sent = Append(@, BatchPayload(ModelId(i),
                                RetryMaxTokens(c.batch_max_tokens),
                                REDUCED_REASONING))])
          ELSE SetCall(i, BatchReturn(c, WithElapsed(result, c.started)))
    /\ UNCHANGED <<inputVars, fanVars>>

\* the response of the retry _post arrives
BatchRetryResponse(i, resp) ==
    /\ calls[i].pc = "batch_retry"
    /\ LET posted == PostResult(resp, calls[i].started)
           c == [calls[i] EXCEPT !.ended = Append(@, posted)]
           result == Annotate(posted, RetryMaxTokens(c.batch_max_tokens))
       IN SetCall(i, BatchReturn(c, WithElapsed(result, c.started)))
    /\ UNCHANGED <<inputVars, fanVars>>

\* a _post raises: asyncio.TimeoutError, aiohttp.ClientError or another exception
BatchFail(i, exc) ==
    /\ calls[i].pc \in {"batch_post", "batch_retry"}
    /\ SetCall(i, BatchReturn([calls[i] EXCEPT !.ended = Append(@, [exception |-> exc])],
                              BatchExceptResult(exc)))
    /\ UNCHANGED <<inputVars, fanVars>>

\* ------------------------------------------------------------------------
\* run_models
\* ------------------------------------------------------------------------
\* one turn of the loop of lines 569-582
CreateTask ==
    /\ fan_pc = "create"
    /\ SetCall(fan_idx, [calls[fan_idx] EXCEPT !.pc = "created"])
    /\ IF fan_idx = N
       THEN fan_pc' = "await" /\ fan_idx' = 1
       ELSE fan_pc' = "create" /\ fan_idx' = fan_idx + 1
    /\ UNCHANGED <<inputVars, out, returned>>

RECURSIVE MetaModels(_)

\* MetaModels that keeps the model id of the first spec listed under a label
MetaModelsKeepFirst(ms) ==
    [l \in {ms[k][1] : k \in 1..Len(ms)} |->
        ms[CHOOSE k \in 1..Len(ms) :
               ms[k][1] = l /\ \A j \in 1..(k - 1) : ms[j][1] # l][2]]

\* {label: model_id for (label, model_id) in models}
MetaModels(ms) ==
    IF ms = <<>> THEN EmptyDict
    ELSE (ms[Len(ms)][1] :> ms[Len(ms)][2]) @@ MetaModels(SubSeq(ms, 1, Len(ms) - 1))

\* AwaitTask that keeps the entry a label already has (out.setdefault)
AwaitTaskKeepFirst ==
    /\ fan_pc = "await"
    /\ calls[fan_idx].pc \in {"done", "raised"}
    /\ IF calls[fan_idx].pc = "raised"
       THEN /\ fan_pc' = "raised"
            /\ calls' = [i \in 1..Len(models) |->
                            IF calls[i].pc \in {"done", "raised", "cancelled"}
                            THEN calls[i]
                            ELSE [calls[i] EXCEPT !.pc = "cancelled", !.st = NoStream]]
            /\ UNCHANGED <<fan_idx, out, returned>>
       ELSE /\ out' = out @@ (models[fan_idx][1] :> calls[fan_idx].result)
            /\ IF fan_idx = Len(models)
               THEN /\ fan_pc' = "returned"
                    /\ returned' = [results |-> out',
                                    meta |-> [models |-> MetaModels(models)]]
                    /\ UNCHANGED fan_idx
               ELSE /\ fan_idx' = fan_idx + 1
                    /\ UNCHANGED <<fan_pc, returned>>
            /\ UNCHANGED calls
    /\ UNCHANGED <<inputVars, completed>>

\* one turn of the loop of lines 585-586, and the return after its last turn;
\* when the awaited task raised, run_models raises and asyncio.run (line 699)
\* cancels the tasks still pending
AwaitTask ==
    /\ fan_pc = "await"
    /\ calls[fan_idx].pc \in {"done", "raised"}
    /\ IF calls[fan_idx].pc = "raised"
       THEN /\ fan_pc' = "raised"
            /\ calls' = [i \in Calls |->
                            IF Finished(i) THEN calls[i]
                            ELSE [calls[i] EXCEPT !.pc = "cancelled", !.st = NoStream]]
            /\ UNCHANGED <<fan_idx, out, returned>>
       ELSE /\ out' = SetKey(out, Label(fan_idx), calls[fan_idx].result)
            /\ IF fan_idx = N
               THEN /\ fan_pc' = "returned"
                    /\ returned' = [results |-> out',
                                    meta |-> [models |-> MetaModels(models)]]
                    /\ UNCHANGED fan_idx
               ELSE /\ fan_idx' = fan_idx + 1
                    /\ UNCHANGED <<fan_pc, returned>>
            /\ UNCHANGED calls
    /\ UNCHANGED <<inputVars, completed>>

\* ------------------------------------------------------------------------
\* Specifications
\* ------------------------------------------------------------------------
Next ==
    \/ CreateTask
    \/ AwaitTask
    \/ \E i \in Calls : CallStart(i)
    \/ \E i \in Calls, status \in Statuses, body \in Bodies : StreamStatus(i, status, body)
    \/ \E i \in Calls, line \in Lines : StreamLine(i, line)
    \/ \E i \in Calls : StreamEnd(i)
    \/ \E i \in Calls, exc \in StreamExceptions : StreamFail(i, exc)
    \/ \E i \in Calls, resp \in Responses : BatchResponse(i, resp)
    \/ \E i \in Calls, resp \in Responses : BatchRetryResponse(i, resp)
    \/ \E i \in Calls, exc \in BatchExceptions : BatchFail(i, exc)

\* run_models over one model, every response the transports distinguish
Spec == Init /\ [][Next]_vars

\* the inputs of the fan-out specification: model lists of up to MaxModels
\* entries, two of them sharing a label, and one response of each kind that
\* decides how a call goes on
FanoutChoices == {<<"A", DEFAULT_GPT_MODEL_ID>>, <<"B", DEFAULT_OPUS_MODEL_ID>>,
                  <<"A", DEFAULT_OPUS_MODEL_ID>>}

FanoutModelLists == UNION {[1..n -> FanoutChoices] : n \in 1..MaxModels}

FanoutLines ==
    {[t |-> "done"],
     [t |-> "json", chunk |-> [t |-> "scalar"]],
     [t |-> "json",
      chunk |-> [t |-> "dict",
                 d |-> [choices |-> <<[t |-> "dict",
                     d |-> [finish_reason |-> "length", delta |-> EmptyDict]]>>]]]}

FanoutResponses ==
    {[t |-> "http", status |-> "500", body |-> <<"r", "a", "t", "e">>],
     [t |-> "json",
      data |-> [choices |-> <<[finish_reason |-> "stop",
                               message |-> [content |->
                                   [t |-> "str", s |-> <<" ", "o", "k", " ">>]]]>>]],
     [t |-> "json",
      data |-> [choices |-> <<[finish_reason |-> "length",
                               message |-> [content |-> [t |-> "none"]]]>>]]}

InitFanout == InitWith(FanoutModelLists, {DEFAULT_MAX_TOKENS}, {TRUE})

NextFanout ==
    \/ CreateTask
    \/ AwaitTask
    \/ \E i \in Calls : CallStart(i)
    \/ \E i \in Calls, status \in Statuses, body \in Bodies : StreamStatus(i, status, body)
    \/ \E i \in Calls, line \in FanoutLines : StreamLine(i, line)
    \/ \E i \in Calls : StreamEnd(i)
    \/ \E i \in Calls : StreamFail(i, "ClientError")
    \/ \E i \in Calls, resp \in FanoutResponses : BatchResponse(i, resp)
    \/ \E i \in Calls, resp \in FanoutResponses : BatchRetryResponse(i, resp)
    \/ \E i \in Calls : BatchFail(i, "TimeoutError")

\* run_models over several models, the tasks interleaved in every order
SpecFanout == InitFanout /\ [][NextFanout]_vars

\* the request call i waits for comes to its end: its response arrives, the
\* body of its stream ends, or it fails or times out (the total timeout of
\* line 303, the stall timeout of lines 399-404, the cap of line 473)
RequestEnds(i) ==
    /\ i \in Calls
    /\ \/ \E status \in Statuses, body \in Bodies : StreamStatus(i, status, body)
       \/ StreamLine(i, [t |-> "done"])
       \/ StreamEnd(i)
       \/ StreamFail(i, "ClientError")
       \/ \E resp \in FanoutResponses : BatchResponse(i, resp)
       \/ \E resp \in FanoutResponses : BatchRetryResponse(i, resp)
       \/ BatchFail(i, "TimeoutError")

\* the event loop runs task i once it is created
TaskRuns(i) == i \in Calls /\ CallStart(i)

\* run_models where every request comes to an end and the event loop runs
\* every task that can run
SpecFanoutFair ==
    /\ SpecFanout
    /\ WF_vars(CreateTask)
    /\ WF_vars(AwaitTask)
    /\ \A i \in 1..MaxModels : WF_vars(TaskRuns(i)) /\ WF_vars(RequestEnds(i))

\* ------------------------------------------------------------------------
\* multi_ai_writer.py: registry and call_openrouter._post
\* ------------------------------------------------------------------------
WRITER_OPUS_MODEL_ID == "anthropic/claude-opus-4-6"

WRITER_DEFAULT_MAX_TOKENS == 2000

\* MODEL_REASONING_OVERHEAD.get(model_id, 0) of the writer
WriterReasoningOverhead(model_id) ==
    IF model_id \in {DEFAULT_GPT_MODEL_ID, DEFAULT_GEMINI_MODEL_ID} THEN 2048 ELSE 0

\* MODEL_EXTRA_PARAMS.get(model_id, {}) of the writer
WriterExtraParams(model_id) ==
    IF model_id \in {DEFAULT_GPT_MODEL_ID, DEFAULT_GEMINI_MODEL_ID}
    THEN [reasoning |-> [max_tokens |-> 2048]]
    ELSE EmptyDict

\* min(max(max_tokens * 3, 2000), 8000)
WriterRetryMaxTokens(budget) == Min(Max(budget * 3, 2000), 8000)

\* WriterShouldRetry over the two model ids the recommendations tool retries
WriterShouldRetryBoth(model_id, result) ==
    /\ model_id \in MODELS_WITH_RETRY
    /\ GetIs(result, "error", EMPTY_RESPONSE)
    /\ GetIs(result, "finish_reason", "length")

\* the retry condition of call_openrouter
WriterShouldRetry(model_id, result) ==
    /\ model_id = "google/gemini-3.1-pro-preview"
    /\ GetIs(result, "error", EMPTY_RESPONSE)
    /\ GetIs(result, "finish_reason", "length")

\* the payload of call_openrouter._post
WriterPayload(model_id, effective_max_tokens, extra_params) ==
    extra_params @@ WriterExtraParams(model_id) @@
    [model |-> model_id,
     max_tokens |-> effective_max_tokens + WriterReasoningOverhead(model_id)]

\* what call_openrouter._post makes of a response: the dict it returns, or
\* [exception |-> name] when reading the response raises; every dict carries
\* the time elapsed since the start of the call
WriterPostResult(resp) ==
    IF resp.t = "http"
    THEN [error |-> <<"HTTP", resp.status>> \o Take(resp.body, HTTP_BODY_LIMIT),
          elapsed_seconds |-> 1]
    ELSE LET data == resp.data IN
         IF "error" \in DOMAIN data
         THEN IF data.error.t # "dict"
              THEN [exception |-> "Exception"]
              ELSE [error |-> GetOr(data.error.d, "message", <<"str(err)">>),
                    elapsed_seconds |-> 1]
         ELSE LET choices == GetOr(data, "choices", <<>>) IN
              IF choices = <<>>
              THEN [error |-> <<"Unexpected response structure: ", "str(data)[:200]">>,
                    elapsed_seconds |-> 1]
              ELSE LET choice0 == choices[1]
                       message == GetOr(choice0, "message", EmptyDict)
                       finish_reason == GetOr(choice0, "finish_reason", "None")
                       content == _coerce_content_to_text(
                                      GetOr(message, "content", [t |-> "none"]))
                       reasoning == GetOr(message, "reasoning", <<>>)
                   IN IF content # <<>>
                      THEN [content |-> content,
                            finish_reason |-> finish_reason,
                            elapsed_seconds |-> 1]
                      ELSE [error |-> EMPTY_RESPONSE,
                            finish_reason |-> finish_reason,
                            has_reasoning |-> (reasoning # <<>>),
                            elapsed_seconds |-> 1]

\* e stands for an exception
Raised(e) == "exception" \in DOMAIN e

\* the dict the except clauses of call_openrouter return
WriterExceptResult(exc) ==
    CASE exc = "TimeoutError" ->
             [error |-> <<"Timeout after", "timeout_seconds">>, elapsed_seconds |-> 1]
      [] exc = "ClientError" ->
             [error |-> <<"Network error: ", "str(e)">>, elapsed_seconds |-> 1]
      [] OTHER ->
             [error |-> <<"Unexpected error: ", "str(e)">>, elapsed_seconds |-> 1]

\* normalize_draft on a text of letters and blanks: with no code fence,
\* preamble, heading or line break in it, the final strip is all that acts
normalize_draft(text) == Strip(text)

\* ------------------------------------------------------------------------
\* multi_ai_writer.py: run_parallel_calls and call_openrouter as steps
\* ------------------------------------------------------------------------
\* _models(): model_a is GPT-5.2 or, under the Codex runtime, Opus
WriterModelLists ==
    {<< <<"model_a", second>>, <<"model_b", DEFAULT_GEMINI_MODEL_ID>> >> :
        second \in {DEFAULT_GPT_MODEL_ID, WRITER_OPUS_MODEL_ID}}

\* effective_max_tokens of main: a platform cap, the default, a --max-tokens
\* whose triple is above the cap of the retry
WriterBudgets == {250, WRITER_DEFAULT_MAX_TOKENS, 3000}

WriterResponses ==
    {[t |-> "http", status |-> "500", body |-> <<"r", "a", "t", "e">>],
     [t |-> "json", data |-> [error |-> [t |-> "str", s |-> <<"b", "a", "d">>]]],
     [t |-> "json",
      data |-> [choices |-> <<[finish_reason |-> "stop",
                               message |-> [content |->
                                   [t |-> "str", s |-> <<" ", "o", "k", " ">>]]]>>]],
     [t |-> "json",
      data |-> [choices |-> <<[finish_reason |-> "length",
                               message |-> [reasoning |-> <<"t">>,
                                            content |-> [t |-> "none"]]]>>]]}

InitWriter ==
    /\ tool = "writer"
    /\ cli = CliPast
    /\ prompt = NoPrompt
    /\ slides = NoSlides
    /\ models \in WriterModelLists
    /\ max_tokens \in WriterBudgets
    /\ stream = FALSE
    /\ fan_pc = "launch"
    /\ fan_idx = 1
    /\ out = EmptyDict
    /\ returned = EmptyDict
    /\ calls = [i \in 1..Len(models) |-> NewCall]
    /\ completed = <<>>

\* asyncio.gather wraps the two coroutines into tasks
WriterLaunch ==
    /\ fan_pc = "launch"
    /\ calls' = [i \in Calls |-> [calls[i] EXCEPT !.pc = "created"]]
    /\ fan_pc' = "gather"
    /\ UNCHANGED <<inputVars, fan_idx, out, returned, completed>>

\* the event loop runs call_openrouter of task i up to its first _post
WriterCallStart(i) ==
    /\ fan_pc = "gather"
    /\ calls[i].pc = "created"
    /\ SetCall(i, [calls[i] EXCEPT
           !.pc = "post",
           !.path = "batch",
           !.sent = <<WriterPayload(ModelId(i), max_tokens, EmptyDict)>>,
           !.batch_max_tokens = max_tokens,
           !.started = 1])
    /\ UNCHANGED <<inputVars, fanVars>>

\* the response of the first _post arrives
WriterResponse(i, resp) ==
    /\ fan_pc = "gather"
    /\ calls[i].pc = "post"
    /\ LET posted == WriterPostResult(resp)
           c == [calls[i] EXCEPT !.ended = Append(@, posted)]
       IN IF Raised(posted)
          THEN SetCall(i, CallReturn(c, WriterExceptResult(posted.exception)))
          ELSE IF WriterShouldRetry(ModelId(i), posted)
          THEN SetCall(i, [c EXCEPT
                   !.pc = "retry",
                   !.sent = Append(@, WriterPayload(ModelId(i),
                                WriterRetryMaxTokens(max_tokens),
                                REDUCED_REASONING))])
          ELSE SetCall(i, CallReturn(c, posted))
    /\ UNCHANGED <<inputVars, fanVars>>

\* WriterRetryResponse that answers a second empty response cut off at the
\* token limit with another request
WriterRetryResponseAgain(i, resp) ==
    /\ fan_pc = "gather"
    /\ calls[i].pc = "retry"
    /\ LET posted == WriterPostResult(resp)
           c == [calls[i] EXCEPT !.ended = Append(@, posted)]
       IN IF Raised(posted)
          THEN SetCall(i, CallReturn(c, WriterExceptResult(posted.exception)))
          ELSE IF WriterShouldRetry(ModelId(i), posted)
          THEN SetCall(i, [c EXCEPT
                   !.sent = Append(@, WriterPayload(ModelId(i),
                                WriterRetryMaxTokens(max_tokens),
                                REDUCED_REASONING))])
          ELSE SetCall(i, CallReturn(c,
                   SetKey(posted, "retried_with_max_tokens",
                          WriterRetryMaxTokens(max_tokens))))
    /\ UNCHANGED <<inputVars, fanVars>>

\* the response of the retry _post arrives
WriterRetryResponse(i, resp) ==
    /\ fan_pc = "gather"
    /\ calls[i].pc = "retry"
    /\ LET posted == WriterPostResult(resp)
           c == [calls[i] EXCEPT !.ended = Append(@, posted)]
       IN IF Raised(posted)
          THEN SetCall(i, CallReturn(c, WriterExceptResult(posted.exception)))
          ELSE SetCall(i, CallReturn(c,
                   SetKey(posted, "retried_with_max_tokens",
                          WriterRetryMaxTokens(max_tokens))))
    /\ UNCHANGED <<inputVars, fanVars>>

\* a _post raises: asyncio.TimeoutError, aiohttp.ClientError or another exception
WriterFail(i, exc) ==
    /\ fan_pc = "gather"
    /\ calls[i].pc \in {"post", "retry"}
    /\ SetCall(i, CallReturn([calls[i] EXCEPT !.ended = Append(@, [exception |-> exc])],
                             WriterExceptResult(exc)))
    /\ UNCHANGED <<inputVars, fanVars>>

\* lines 464-467: a truthy content is replaced by its normalised draft
WriterNormalized(result) ==
    IF "content" \in DOMAIN result /\ result.content # <<>>
    THEN [result EXCEPT !.content = normalize_draft(@)]
    ELSE result

\* both tasks are done: gather hands over their results and run_parallel_calls
\* returns
WriterGather ==
    /\ fan_pc = "gather"
    /\ \A i \in Calls : calls[i].pc = "done"
    /\ out' = [i \in Calls |-> calls[i].result]
    /\ returned' = [model_a |-> WriterNormalized(out'[1]),
                    model_b |-> WriterNormalized(out'[2]),
                    models_used |-> MetaModels(models)]
    /\ fan_pc' = "returned"
    /\ UNCHANGED <<inputVars, fan_idx, calls, completed>>

NextWriter ==
    \/ WriterLaunch
    \/ WriterGather
    \/ \E i \in Calls : WriterCallStart(i)
    \/ \E i \in Calls, resp \in WriterResponses : WriterResponse(i, resp)
    \/ \E i \in Calls, resp \in WriterResponses : WriterRetryResponse(i, resp)
    \/ \E i \in Calls, exc \in BatchExceptions : WriterFail(i, exc)

\* run_parallel_calls of multi_ai_writer.py
SpecWriter == InitWriter /\ [][NextWriter]_vars

\* either orchestrator: run_models of multi_ai_recs.py over one model, or
\* run_parallel_calls of multi_ai_writer.py
InitOrchestrators == Init \/ InitWriter

NextOrchestrators == Next \/ NextWriter

SpecOrchestrators == InitOrchestrators /\ [][NextOrchestrators]_vars

\* ------------------------------------------------------------------------
\* multi_ai_recs.py: build_user_prompt
\* ------------------------------------------------------------------------
\* build_user_prompt that tests the sources before trimming them
build_user_prompt_untrimmed(request_text, sources_text, today) ==
    IF sources_text # <<>>
    THEN <<"TODAY: ">> \o today \o <<"\n", "\n", "REQUEST:", "\n">>
         \o Strip(request_text) \o <<"\n", "\n", "SOURCES:", "\n">>
         \o Strip(sources_text) \o <<"\n">>
    ELSE <<"TODAY: ">> \o today \o <<"\n", "\n", "REQUEST:", "\n">>
         \o Strip(request_text) \o <<"\n">>

\* build_user_prompt(request_text=..., sources_text=..., today=...); the
\* literal words of the format string are one element each
build_user_prompt(request_text, sources_text, today) ==
    IF Strip(sources_text) # <<>>
    THEN <<"TODAY: ">> \o today \o <<"\n", "\n", "REQUEST:", "\n">>
         \o Strip(request_text) \o <<"\n", "\n", "SOURCES:", "\n">>
         \o Strip(sources_text) \o <<"\n">>
    ELSE <<"TODAY: ">> \o today \o <<"\n", "\n", "REQUEST:", "\n">>
         \o Strip(request_text) \o <<"\n">>

\* the texts of up to MaxText characters over a letter, a blank and a line break
PromptTexts == UNION {[1..n -> {"q", " ", "\n"}] : n \in 0..MaxText}

\* the prompts main lets through: line 658 turns away a prompt that is empty
\* after trimming
RequestTexts == {t \in PromptTexts : Strip(t) # <<>>}

\* date.today().isoformat()
Dates == {<<"2026-02-01">>, <<"2026-02-02">>}

\* run_models is about to build the user prompt
InitPrompt ==
    /\ tool = "recs"
    /\ cli = CliPast
    /\ prompt \in {[pc |-> "input", request_text |-> r, sources_text |-> s, today |-> d] :
                      r \in RequestTexts, s \in PromptTexts, d \in Dates}
    /\ slides = NoSlides
    /\ models = << <<"A", DEFAULT_GPT_MODEL_ID>> >>
    /\ max_tokens = DEFAULT_MAX_TOKENS
    /\ stream = TRUE
    /\ fan_pc = "prompt"
    /\ fan_idx = 1
    /\ out = EmptyDict
    /\ returned = EmptyDict
    /\ calls = [i \in 1..Len(models) |-> NewCall]
    /\ completed = <<>>

\* line 566 of run_models
BuildUserPrompt ==
    /\ fan_pc = "prompt"
    /\ prompt.pc = "input"
    /\ prompt' = [pc |-> "built",
                  request_text |-> prompt.request_text,
                  sources_text |-> prompt.sources_text,
                  today |-> prompt.today,
                  text |-> build_user_prompt(prompt.request_text,
                                             prompt.sources_text, prompt.today)]
    /\ UNCHANGED <<models, max_tokens, stream, tool, cli, slides, fanVars, calls, completed>>

NextPrompt == BuildUserPrompt

SpecPrompt == InitPrompt /\ [][NextPrompt]_vars

\* ------------------------------------------------------------------------
\* main() of the seven command-line tools, up to the first network request
\* ------------------------------------------------------------------------
Tools == {"recs", "writer", "slides", "exa", "firecrawl_fetch", "firecrawl_search",
          "reddit"}

\* the credential variables a tool looks up
CredentialNames(t) ==
    CASE t \in {"recs", "writer"} -> {"OPENROUTER_API_KEY"}
      [] t = "slides" -> {"GEMINI_API_KEY", "GOOGLE_API_KEY"}
      [] t = "exa" -> {"EXA_API_KEY"}
      [] t \in {"firecrawl_fetch", "firecrawl_search"} -> {"FIRECRAWL_API_KEY"}
      [] OTHER -> {"REDDIT_CLIENT_ID", "REDDIT_CLIENT_SECRET"}

\* os.getenv(name)
Getenv(name) == name \in cli.environ

\* _getenv_with_dotenv, _load_dotenv_var, get_api_key, getenv_with_dotenv:
\* the environment first, then the .env file
GetenvWithDotenv(name) == name \in cli.environ \/ name \in cli.dotenv

\* sys.exit(code) / return code from main
Exit(code) == cli' = [cli EXCEPT !.pc = "exit", !.exit_code = code]

\* main goes on to its network phase
Proceed == cli' = [cli EXCEPT !.pc = "request"]

CliUnchanged ==
    UNCHANGED <<models, max_tokens, stream, tool, prompt, slides, fanVars, calls, completed>>

\* RecsMain without the credential check
RecsMainNoCheck ==
    /\ tool = "recs"
    /\ cli.pc = "main"
    /\ IF ~cli.has_input THEN Exit(2)
       ELSE Proceed
    /\ CliUnchanged

\* multi_ai_recs.py main, lines 655-699
RecsMain ==
    /\ tool = "recs"
    /\ cli.pc = "main"
    /\ IF ~cli.has_input THEN Exit(2)
       ELSE IF ~GetenvWithDotenv("OPENROUTER_API_KEY") THEN Exit(2)
       ELSE Proceed
    /\ CliUnchanged

\* multi_ai_writer.py main: argparse turns a missing --prompt away with
\* status 2; lines 548-562
WriterMain ==
    /\ tool = "writer"
    /\ cli.pc = "main"
    /\ IF ~cli.has_input THEN Exit(2)
       ELSE IF ~GetenvWithDotenv("OPENROUTER_API_KEY") THEN Exit(1)
       ELSE Proceed
    /\ CliUnchanged

\* check_environment of gemini_slides.py
check_environment ==
    GetenvWithDotenv("GEMINI_API_KEY") \/ GetenvWithDotenv("GOOGLE_API_KEY")

\* gemini_slides.py main, lines 906-918, and run_smoke_test up to its request
SlidesMain ==
    /\ tool = "slides"
    /\ cli.pc = "main"
    /\ IF cli.smoke_test
       THEN IF ~check_environment THEN Exit(1) ELSE Proceed
       ELSE IF ~cli.has_input THEN Exit(2)
       ELSE IF ~check_environment THEN Exit(1)
       ELSE Proceed
    /\ CliUnchanged

\* exa_search.py main and search_exa: a missing key becomes an error result
\* and status 1
ExaMain ==
    /\ tool = "exa"
    /\ cli.pc = "main"
    /\ IF ~cli.has_input THEN Exit(2)
       ELSE IF ~Getenv("EXA_API_KEY") THEN Exit(1)
       ELSE Proceed
    /\ CliUnchanged

\* firecrawl_fetch.py main, lines 97-109: the key is looked up before the URLs
FirecrawlFetchMain ==
    /\ tool = "firecrawl_fetch"
    /\ cli.pc = "main"
    /\ IF ~Getenv("FIRECRAWL_API_KEY") THEN Exit(2)
       ELSE IF ~cli.has_input THEN Exit(2)
       ELSE Proceed
    /\ CliUnchanged

\* firecrawl_search.py main, lines 59-64
FirecrawlSearchMain ==
    /\ tool = "firecrawl_search"
    /\ cli.pc = "main"
    /\ IF ~cli.has_input THEN Exit(2)
       ELSE IF ~Getenv("FIRECRAWL_API_KEY") THEN Exit(2)
       ELSE Proceed
    /\ CliUnchanged

\* reddit_search.py main, lines 278-294
RedditMain ==
    /\ tool = "reddit"
    /\ cli.pc = "main"
    /\ IF ~cli.has_input THEN Exit(2)
       ELSE IF ~GetenvWithDotenv("REDDIT_CLIENT_ID")
               \/ ~GetenvWithDotenv("REDDIT_CLIENT_SECRET") THEN Exit(2)
       ELSE Proceed
    /\ CliUnchanged

\* the first request of the network phase goes out
ToolRequest ==
    /\ fan_pc = "cli"
    /\ cli.pc = "request"
    /\ cli' = [cli EXCEPT !.pc = "sent", !.requests = @ + 1]
    /\ CliUnchanged

\* a tool is started: what is set in the environment and in the .env file,
\* whether the required arguments are given, --test for the slides tool
InitCli ==
    /\ tool \in Tools
    /\ cli \in {[pc |-> "main", environ |-> e, dotenv |-> d, has_input |-> h,
                 smoke_test |-> t, exit_code |-> -1, requests |-> 0] :
                   e \in SUBSET CredentialNames(tool),
                   d \in SUBSET CredentialNames(tool),
                   h \in BOOLEAN,
                   t \in IF tool = "slides" THEN BOOLEAN ELSE {FALSE}}
    /\ prompt = NoPrompt
    /\ slides = NoSlides
    /\ models = <<>>
    /\ max_tokens = DEFAULT_MAX_TOKENS
    /\ stream = TRUE
    /\ fan_pc = "cli"
    /\ fan_idx = 1
    /\ out = EmptyDict
    /\ returned = EmptyDict
    /\ calls = <<>>
    /\ completed = <<>>

NextCli ==
    \/ RecsMain
    \/ WriterMain
    \/ SlidesMain
    \/ ExaMain
    \/ FirecrawlFetchMain
    \/ FirecrawlSearchMain
    \/ RedditMain
    \/ ToolRequest

SpecCli == InitCli /\ [][NextCli]_vars

\* ------------------------------------------------------------------------
\* gemini_slides.py: generate_with_evaluation
\* ------------------------------------------------------------------------
\* the largest --eval-cycles value explored
MaxCycles == 3

IMAGE_MODEL == "gemini-3-pro-image-preview"
FALLBACK_MODELS == <<"gemini-2.0-flash-exp">>

\* an image is known by the generation round that made it, 0 stands for None;
\* an error message and a model name are strings, "None" stands for None

\* generate_with_fallback: attempts[k] says whether generate_image_direct
\* yields an image for the k-th model; the answer is (image, error, model)
generate_with_fallback(attempts, image) ==
    LET tried == <<IMAGE_MODEL>> \o FALLBACK_MODELS IN
    IF \E k \in 1..Len(tried) : attempts[k]
    THEN LET k == CHOOSE k \in 1..Len(tried) :
                      attempts[k] /\ \A j \in 1..(k - 1) : ~attempts[j]
         IN <<image, "None", tried[k]>>
    ELSE <<0, "All models failed", "None">>

\* what evaluate_slide makes of the evaluator's response, the API key being
\* set and the style spec non-empty: the parsed list when the text is a JSON
\* list, [] for anything else
evaluate_slide(resp) ==
    IF resp.t = "list" THEN resp.items ELSE <<>>

\* [v for v in violations if v.get("severity") == "high"]
RECURSIVE HighSeverity(_)
HighSeverity(violations) ==
    IF violations = <<>> THEN <<>>
    ELSE IF GetIs(Head(violations).d, "severity", "high")
         THEN <<Head(violations)>> \o HighSeverity(Tail(violations))
         ELSE HighSeverity(Tail(violations))

\* a prompt is [corrections, text]: the lines of the correction block put
\* before the text, none for the prompt as the caller gave it
auto_correct_prompt(original_prompt, violations) ==
    IF violations = <<>> THEN original_prompt
    ELSE [corrections |->
              [k \in 1..Len(violations) |->
                  <<GetOr(violations[k].d, "element", "unknown"),
                    GetOr(violations[k].d, "expected", ""),
                    GetOr(violations[k].d, "actual", "")>>],
          text |-> original_prompt.text]

OriginalPrompt == [corrections |-> <<>>, text |-> "slide"]

HighTitle ==
    [t |-> "dict", d |-> [element |-> "title", expected |-> "navy",
                          actual |-> "black", severity |-> "high"]]
HighBare == [t |-> "dict", d |-> [severity |-> "high"]]
LowSpacing ==
    [t |-> "dict", d |-> [element |-> "underline", expected |-> "8px",
                          actual |-> "6px", severity |-> "low"]]

\* the evaluator's responses: a status other than 200, a text that is JSON
\* but no list, and lists of violations, one of them holding a string
EvalResponses ==
    {[t |-> "http"], [t |-> "object"]}
    \cup {[t |-> "list", items |-> v] :
            v \in {<<>>, <<LowSpacing>>, <<HighTitle>>, <<LowSpacing, HighBare>>,
                   <<HighTitle, HighBare>>, <<[t |-> "scalar"]>>}}

Attempts == [1..(1 + Len(FALLBACK_MODELS)) -> BOOLEAN]

\* generate_with_evaluation returns triple
SlidesReturn(triple) ==
    [slides EXCEPT !.pc = "returned", !.ret = triple]

SlidesUnchanged ==
    UNCHANGED <<models, max_tokens, stream, tool, cli, prompt, fanVars, calls, completed>>

\* one turn of the for loop up to the call of evaluate_slide (lines 718-727)
SlidesRound(attempts) ==
    /\ slides.pc = "loop"
    /\ slides.cycle < slides.max_cycles
    /\ LET g == generate_with_fallback(attempts, slides.rounds + 1)
           sl == [slides EXCEPT !.rounds = @ + 1,
                                !.sent = Append(@, slides.current_prompt),
                                !.image_bytes = g[1],
                                !.model_used = g[3]]
       IN slides' =
            IF g[1] = 0
            THEN [sl EXCEPT !.pc = "returned", !.ret = <<0, g[2], "None">>]
            ELSE IF ~slides.style_spec \/ slides.cycle = slides.max_cycles - 1
            THEN [sl EXCEPT !.pc = "returned", !.ret = <<g[1], "None", g[3]>>]
            ELSE [sl EXCEPT !.pc = "evaluate"]
    /\ SlidesUnchanged

\* the rest of the turn (lines 729-743): v.get raises AttributeError on a
\* violation that is no object
SlidesEvaluate(resp) ==
    /\ slides.pc = "evaluate"
    /\ LET violations == evaluate_slide(resp) IN
       IF \E k \in 1..Len(violations) : violations[k].t # "dict"
       THEN slides' = [slides EXCEPT !.pc = "raised", !.ret = <<"AttributeError">>]
       ELSE LET high_severity == HighSeverity(violations) IN
            IF high_severity = <<>>
            THEN slides' = SlidesReturn(<<slides.image_bytes, "None", slides.model_used>>)
            ELSE slides' = [slides EXCEPT
                     !.pc = "loop",
                     !.cycle = @ + 1,
                     !.current_prompt = auto_correct_prompt(OriginalPrompt, high_severity)]
    /\ SlidesUnchanged

\* range(max_cycles) is used up: the return of line 748, which reads
\* image_bytes and model_used, names no turn of the loop has bound when there
\* was none
SlidesLoopEnd ==
    /\ slides.pc = "loop"
    /\ slides.cycle >= slides.max_cycles
    /\ slides' = IF slides.rounds = 0
                 THEN [slides EXCEPT !.pc = "raised", !.ret = <<"UnboundLocalError">>]
                 ELSE SlidesReturn(<<slides.image_bytes, "None", slides.model_used>>)
    /\ SlidesUnchanged

\* generate_images_direct calls generate_with_evaluation for a slide that has
\* a style spec, with the --eval-cycles value as max_cycles; another caller
\* may leave the style spec out
InitSlides ==
    /\ tool = "slides"
    /\ cli = [CliPast EXCEPT !.environ = {"GEMINI_API_KEY"}]
    /\ prompt = NoPrompt
    /\ slides \in {[pc |-> "loop", max_cycles |-> m, style_spec |-> sp, cycle |-> 0,
                    rounds |-> 0, sent |-> <<>>, current_prompt |-> OriginalPrompt,
                    image_bytes |-> 0, model_used |-> "None", ret |-> <<>>] :
                      m \in -1..MaxCycles, sp \in BOOLEAN}
    /\ models = <<>>
    /\ max_tokens = DEFAULT_MAX_TOKENS
    /\ stream = TRUE
    /\ fan_pc = "slides"
    /\ fan_idx = 1
    /\ out = EmptyDict
    /\ returned = EmptyDict
    /\ calls = <<>>
    /\ completed = <<>>

NextSlides ==
    \/ \E attempts \in Attempts : SlidesRound(attempts)
    \/ \E resp \in EvalResponses : SlidesEvaluate(resp)
    \/ SlidesLoopEnd

SpecSlides == InitSlides /\ [][NextSlides]_vars

\* ------------------------------------------------------------------------
\* Properties
\* ------------------------------------------------------------------------
RaisedIs(e, names) == "exception" \in DOMAIN e /\ e.exception \in names

\* a request of the streaming transport ended in EmptyResponse, finish reason "length"
StreamedEmptyLength(e) ==
    /\ GetIs(e, "streamed", TRUE)
    /\ GetIs(e, "error", EMPTY_RESPONSE)
    /\ GetIs(e, "finish_reason", "length")

Annotated(result) ==
    \/ "retried_with_max_tokens" \in DOMAIN result
    \/ "retried_reasoning_effort" \in DOMAIN result

IsTimeoutFailure(result) ==
    /\ "error" \in DOMAIN result
    /\ result.error # <<>>
    /\ Head(result.error) = "Timeout after"

\* C1: a model call sends at most two requests, the streaming attempt and at
\* most one batch request, and the call is over once the second request has
\* ended.
C1_AtMostTwoRequests ==
    \A i \in Calls :
        /\ Len(calls[i].sent) <= 2
        /\ Len(calls[i].ended) >= 2 => calls[i].pc = "done"

\* C2: after a streaming attempt of a retry-eligible model ended in
\* EmptyResponse with finish reason "length", the next request of the call is
\* a batch request whose reasoning object is {max_tokens: 512}.
C2_RetryRequestReducesReasoning ==
    \A i \in Calls :
        (/\ ModelId(i) \in {DEFAULT_GPT_MODEL_ID, DEFAULT_GEMINI_MODEL_ID}
         /\ Len(calls[i].ended) >= 1
         /\ StreamedEmptyLength(calls[i].ended[1]))
        => /\ Len(calls[i].sent) >= 2
           /\ "stream" \notin DOMAIN calls[i].sent[2]
           /\ GetIs(calls[i].sent[2], "reasoning", [max_tokens |-> 512])

\* C3: after a network-level failure of the streaming attempt the dispatcher
\* sends one batch request at the original budget; it is the last request of
\* the call and its outcome is returned without a retry annotation.
C3_FallbackIsFinal ==
    \A i \in Calls :
        (stream /\ Len(calls[i].ended) >= 1 /\ RaisedIs(calls[i].ended[1], {"ClientError"}))
        => /\ Len(calls[i].sent) >= 2
           /\ "stream" \notin DOMAIN calls[i].sent[2]
           /\ calls[i].sent[2].max_tokens = max_tokens + MODEL_REASONING_OVERHEAD(ModelId(i))
           /\ Len(calls[i].sent) = 2
           /\ calls[i].pc = "done" => ~Annotated(calls[i].result)

\* C4 as claimed: every timeout (stall, safety cap or batch wall clock) ends
\* the call: the request that timed out is the last one sent and the call
\* returns a Timeout failure.
C4_EveryTimeoutTerminal ==
    \A i \in Calls : \A k \in 1..Len(calls[i].ended) :
        RaisedIs(calls[i].ended[k], {"StallTimeout", "SafetyCap", "TimeoutError"})
        => /\ Len(calls[i].sent) = k
           /\ calls[i].pc = "done"
           /\ IsTimeoutFailure(calls[i].result)

\* C4 as amended: a batch wall-clock timeout ends the call, which returns a
\* Timeout failure and sends nothing more; a stall or safety-cap timeout of
\* the streaming attempt is followed by the batch fallback request at the
\* original budget.
C4_BatchTimeoutTerminal ==
    \A i \in Calls : \A k \in 1..Len(calls[i].ended) :
        /\ RaisedIs(calls[i].ended[k], {"TimeoutError"})
           => /\ Len(calls[i].sent) = k
              /\ calls[i].pc = "done"
              /\ IsTimeoutFailure(calls[i].result)
        /\ RaisedIs(calls[i].ended[k], {"StallTimeout", "SafetyCap"})
           => /\ k = 1
              /\ Len(calls[i].sent) >= 2
              /\ "stream" \notin DOMAIN calls[i].sent[2]
              /\ calls[i].sent[2].max_tokens =
                     max_tokens + MODEL_REASONING_OVERHEAD(ModelId(i))

\* a batch retry request timed out and the call returned
C4_Witness ==
    \E i \in Calls :
        /\ calls[i].pc = "done"
        /\ Len(calls[i].ended) = 3
        /\ RaisedIs(calls[i].ended[1], {"StallTimeout"})
        /\ RaisedIs(calls[i].ended[3], {"TimeoutError"})

\* C5: no exception escapes a model call or the fan-out: every call that ran
\* to its end holds a result dict and run_models does not raise.
C5_NoExceptionEscapes ==
    /\ fan_pc # "raised"
    /\ \A i \in Calls : calls[i].pc # "raised"

\* C6: no call is cancelled and the fan-out ends only after every call has
\* run to its own end, with each call's own outcome in the result.
C6_NoCrossCancellation ==
    /\ \A i \in Calls : calls[i].pc # "cancelled"
    /\ fan_pc \in {"returned", "raised"} =>
           \A i \in Calls : calls[i].pc \in {"done", "raised"}

\* the call listed last among those carrying label l
LastIndex(l) ==
    CHOOSE i \in Calls : Label(i) = l /\ \A j \in Calls : Label(j) = l => j <= i

\* the place of call i in the order of completion
Place(i) == CHOOSE k \in 1..Len(completed) : completed[k] = i

\* C7: the mapping run_models returns is fixed by the model list and the
\* outcome of each call, whatever the completion order: each label maps to the
\* outcome of the call listed last under that label.
C7_ResultIndependentOfCompletionOrder ==
    fan_pc = "returned" =>
        /\ DOMAIN returned.results = {Label(i) : i \in Calls}
        /\ \A l \in DOMAIN returned.results :
               returned.results[l] = calls[LastIndex(l)].result

\* two calls share a label, the one listed last finished first, their outcomes
\* differ and run_models has returned
C7_Witness ==
    /\ fan_pc = "returned"
    /\ \E i, j \in Calls :
          /\ i < j
          /\ Label(i) = Label(j)
          /\ Place(j) < Place(i)
          /\ calls[i].result # calls[j].result

PairwiseDistinctLabels == \A i, j \in Calls : i # j => Label(i) # Label(j)

ExactlyOneOfContentError(result) ==
    ("content" \in DOMAIN result) # ("error" \in DOMAIN result)

\* C8: for pairwise distinct labels the returned mapping has exactly one entry
\* per model spec, under its label, and each entry carries exactly one of
\* content and error.
C8_OneEntryPerSpec ==
    (fan_pc = "returned" /\ PairwiseDistinctLabels) =>
        /\ Cardinality(DOMAIN returned.results) = N
        /\ \A i \in Calls :
              /\ Label(i) \in DOMAIN returned.results
              /\ returned.results[Label(i)] = calls[i].result
              /\ ExactlyOneOfContentError(returned.results[Label(i)])

\* two distinct labels, one entry a content and the other an annotated error
C8_Witness ==
    /\ fan_pc = "returned"
    /\ N = 2
    /\ PairwiseDistinctLabels
    /\ \E i, j \in Calls :
          /\ "content" \in DOMAIN returned.results[Label(i)]
          /\ "error" \in DOMAIN returned.results[Label(j)]
          /\ Annotated(returned.results[Label(j)])

\* C9: every task exists before run_models waits on any, no task runs before
\* all exist, and a created task can start whatever the state of the others.
C9_AllStartedBeforeWaiting ==
    /\ fan_pc = "await" => \A i \in Calls : calls[i].pc # "uncreated"
    /\ \A i, j \in Calls :
          calls[i].pc \notin {"uncreated", "created"} => calls[j].pc # "uncreated"
    /\ \A i \in Calls :
          (fan_pc = "await" /\ calls[i].pc = "created") => ENABLED CallStart(i)

\* the first request of every call of a fan-out over several models is in flight
C9_Witness ==
    /\ N >= 2
    /\ \A i \in Calls :
          /\ calls[i].pc = "stream_post"
          /\ Len(calls[i].sent) = 1
          /\ calls[i].ended = <<>>

\* the overhead the registry lists for a model
RegisteredOverhead(model_id) ==
    CASE model_id = "openai/gpt-5.2" -> 4096
      [] model_id = "google/gemini-3.1-pro-preview" -> 4096
      [] OTHER -> 0

\* the first-attempt requests of call i: the first request, and the batch
\* request that follows a failed streaming request
FirstAttempts(i) ==
    {k \in 1..Len(calls[i].sent) :
        k = 1 \/ (k = 2 /\ Raised(calls[i].ended[1]))}

\* C10: every first-attempt request carries max_tokens = v + overhead(model),
\* overhead 0 for an unlisted model, and never the raw v when the overhead is
\* not 0.
C10_WireBudgetAddsOverhead ==
    \A i \in Calls : \A k \in FirstAttempts(i) :
        /\ calls[i].sent[k].max_tokens = max_tokens + RegisteredOverhead(ModelId(i))
        /\ RegisteredOverhead(ModelId(i)) # 0 => calls[i].sent[k].max_tokens # max_tokens

\* a streaming request and its batch fallback, both sent for a model with overhead
C10_Witness ==
    \E i \in Calls :
        /\ RegisteredOverhead(ModelId(i)) # 0
        /\ Len(calls[i].sent) >= 2
        /\ "stream" \in DOMAIN calls[i].sent[1]
        /\ Raised(calls[i].ended[1])

\* three times v, raised to 8000 and capped at 16000
TripledBudget(v) ==
    LET t == 3 * v IN IF t < 8000 THEN 8000 ELSE IF t > 16000 THEN 16000 ELSE t

\* the streaming attempt of call i, a retry-eligible model, ended in
\* EmptyResponse with finish reason "length"
StreamRetryDue(i) ==
    /\ ModelId(i) \in {"openai/gpt-5.2", "google/gemini-3.1-pro-preview"}
    /\ Len(calls[i].ended) >= 1
    /\ StreamedEmptyLength(calls[i].ended[1])

\* C11 as claimed: after a streamed EmptyResponse with finish reason "length"
\* for a retry-eligible model with visible budget v, the next request is a
\* batch request whose max_tokens is min(max(3v, 8000), 16000).
C11_RetryWireBudgetIsTripled ==
    \A i \in Calls :
        StreamRetryDue(i)
        => /\ Len(calls[i].sent) >= 2
           /\ "stream" \notin DOMAIN calls[i].sent[2]
           /\ calls[i].sent[2].max_tokens = TripledBudget(max_tokens)

\* C11 as amended: the batch request that follows carries max_tokens =
\* min(max(3v, 8000), 16000) + overhead(model): the tripled value is the
\* visible budget of the retry, and the overhead is added to it as to every
\* other request.
C11_RetryWireBudgetAddsOverhead ==
    \A i \in Calls :
        StreamRetryDue(i)
        => /\ Len(calls[i].sent) >= 2
           /\ "stream" \notin DOMAIN calls[i].sent[2]
           /\ calls[i].sent[2].max_tokens =
                  TripledBudget(max_tokens) + RegisteredOverhead(ModelId(i))

\* the retry request went out for a budget whose triple is above the cap
C11_Witness ==
    \E i \in Calls :
        /\ StreamRetryDue(i)
        /\ Len(calls[i].sent) >= 2
        /\ 3 * max_tokens > 16000

\* request k of call i went over the batch transport and its response raised nothing
BatchAnswered(i, k) ==
    /\ k <= Len(calls[i].ended)
    /\ "stream" \notin DOMAIN calls[i].sent[k]
    /\ ~Raised(calls[i].ended[k])

\* C12: a batch request never ends in a Success whose content is empty after
\* trimming: a 200 response whose first choice holds empty or whitespace-only
\* content ends in Failure(EmptyResponse) with finish reason and has_reasoning.
C12_BatchSuccessHasContent ==
    \A i \in Calls : \A k \in 1..Len(calls[i].ended) :
        (BatchAnswered(i, k) /\ "content" \in DOMAIN calls[i].ended[k])
        => \E j \in 1..Len(calls[i].ended[k].content) :
               ~IsSpace(calls[i].ended[k].content[j])

\* the delta object a data line delivers, {} for every line that has none
DeltaOf(line) ==
    IF /\ line.t = "json"
       /\ line.chunk.t = "dict"
       /\ "error" \notin DOMAIN line.chunk.d
       /\ "choices" \in DOMAIN line.chunk.d
       /\ line.chunk.d.choices # <<>>
       /\ line.chunk.d.choices[1].t = "dict"
       /\ "delta" \in DOMAIN line.chunk.d.choices[1].d
    THEN line.chunk.d.choices[1].d.delta
    ELSE EmptyDict

\* some delta in parts holds a character that is not whitespace
HasVisible(parts) ==
    \E k \in 1..Len(parts) : \E j \in 1..Len(parts[k]) : ~IsSpace(parts[k][j])

InBandError(e) ==
    "error" \in DOMAIN e /\ e.error # <<>> /\ Head(e.error) = "Stream error: "

\* this step ends the stream of call i with an outcome of the loop's end:
\* nothing was raised and no in-band error was returned
StreamOutcomeStep(i) ==
    /\ calls[i].pc = "stream_read"
    /\ Len(calls'[i].ended) = 1
    /\ ~Raised(calls'[i].ended[1])
    /\ ~InBandError(calls'[i].ended[1])

\* C13: at the end of a stream without in-band error the outcome is Success
\* exactly when the accumulated content is non-empty after trimming; otherwise
\* it is Failure(EmptyResponse), marked streamed, with the finish reason and
\* has_reasoning true exactly when a non-empty reasoning delta was received.
C13_StreamEndOutcome ==
    [][\A i \in Calls :
        /\ StreamOutcomeStep(i) =>
              LET st == calls[i].st
                  e == calls'[i].ended[1]
              IN /\ HasVisible(st.content_parts)
                        <=> ("content" \in DOMAIN e /\ "error" \notin DOMAIN e)
                 /\ ~HasVisible(st.content_parts) =>
                        /\ GetIs(e, "error", EMPTY_RESPONSE)
                        /\ GetIs(e, "streamed", TRUE)
                        /\ GetIs(e, "finish_reason", st.finish_reason)
                        /\ GetIs(e, "has_reasoning", st.reasoning_parts # <<>>)
        /\ \A line \in Lines :
              (StreamLine(i, line) /\ calls'[i].pc = "stream_read") =>
                  ((calls'[i].st.reasoning_parts # <<>>)
                     <=> \/ calls[i].st.reasoning_parts # <<>>
                         \/ GetOr(DeltaOf(line), "reasoning", <<>>) # <<>>)
      ]_vars

\* a stream of whitespace content and a reasoning delta ended in EmptyResponse
\* with has_reasoning set
C13_Witness ==
    \E i \in Calls :
        /\ Len(calls[i].ended) >= 1
        /\ GetIs(calls[i].ended[1], "streamed", TRUE)
        /\ GetIs(calls[i].ended[1], "error", EMPTY_RESPONSE)
        /\ GetIs(calls[i].ended[1], "has_reasoning", TRUE)
        /\ GetIs(calls[i].ended[1], "finish_reason", "stop")

\* the deltas of parts, one after the other
RECURSIVE Flatten(_)
Flatten(parts) ==
    IF parts = <<>> THEN <<>>
    ELSE Flatten(SubSeq(parts, 1, Len(parts) - 1)) \o parts[Len(parts)]

\* text is whole without its leading and trailing whitespace
IsTrimOf(text, whole) ==
    \E a \in 0..Len(whole) : \E b \in a..Len(whole) :
        /\ text = SubSeq(whole, a + 1, b)
        /\ \A j \in (1..a) \cup ((b + 1)..Len(whole)) : IsSpace(whole[j])
        /\ text # <<>> => ~IsSpace(text[1]) /\ ~IsSpace(text[Len(text)])

\* C14: the content deltas of a stream are accumulated in their order, a
\* reasoning delta never among them, and at the terminal marker a
\* concatenation holding a non-whitespace character gives Success, marked
\* streamed, whose content is the concatenation trimmed at both ends.
C14_StreamSuccessIsConcatenation ==
    [][\A i \in Calls :
        /\ \A line \in Lines :
              (StreamLine(i, line) /\ calls'[i].pc = "stream_read") =>
                  LET c == GetOr(DeltaOf(line), "content", <<>>) IN
                  calls'[i].st.content_parts =
                      calls[i].st.content_parts \o (IF c # <<>> THEN <<c>> ELSE <<>>)
        /\ (StreamLine(i, [t |-> "done"]) /\ HasVisible(calls[i].st.content_parts)) =>
              LET e == calls'[i].ended[1] IN
              /\ "error" \notin DOMAIN e
              /\ GetIs(e, "streamed", TRUE)
              /\ "content" \in DOMAIN e
              /\ IsTrimOf(e.content, Flatten(calls[i].st.content_parts))
      ]_vars

\* the deltas "Hel" and "lo" ended in the streamed Success "Hello"
C14_Witness ==
    \E i \in Calls :
        /\ Len(calls[i].ended) >= 1
        /\ GetIs(calls[i].ended[1], "streamed", TRUE)
        /\ GetIs(calls[i].ended[1], "content", <<"H", "e", "l", "l", "o">>)

EmptyLength(e) ==
    /\ GetIs(e, "error", EMPTY_RESPONSE)
    /\ GetIs(e, "finish_reason", "length")

\* call i sent a retry request: a request that answers an EmptyResponse with
\* finish reason "length"
RetrySent(i) ==
    \E k \in 2..Len(calls[i].sent) : EmptyLength(calls[i].ended[k - 1])

\* C15: the outcome of a call that sent a retry request carries the retry
\* annotation (the retry budget and the effort level), whether the retry
\* succeeded or failed, a timeout or network error of the retry request
\* included; the outcome of a call that sent none carries neither.
C15_AnnotatedIffRetried ==
    \A i \in Calls :
        calls[i].pc = "done" =>
            IF RetrySent(i)
            THEN /\ "retried_with_max_tokens" \in DOMAIN calls[i].result
                 /\ "retried_reasoning_effort" \in DOMAIN calls[i].result
            ELSE ~Annotated(calls[i].result)

\* C16: every outcome a call returns, Success or Failure, carries the elapsed
\* time, and the clock it reads was started at the start of the call (with
\* its first request).
C16_ElapsedFromCallStart ==
    \A i \in Calls :
        calls[i].pc = "done" => GetIs(calls[i].result, "elapsed_seconds", 1)

IsHttpError(e) ==
    "error" \in DOMAIN e /\ e.error # <<>> /\ Head(e.error) = "HTTP"

\* the first n characters of body, all of it when it has no more than n
Prefix(body, n) == [j \in 1..(IF Len(body) < n THEN Len(body) ELSE n) |-> body[j]]

\* C18: a response with a non-2xx status, on the streaming or the batch
\* transport, ends in Failure(HttpError) whose detail is the status and at
\* most the first 300 characters of the body; the failure is terminal: no
\* further request is sent and the call returns that error.
C18_HttpErrorTruncatedTerminal ==
    \A i \in Calls : \A k \in 1..Len(calls[i].ended) :
        IsHttpError(calls[i].ended[k]) =>
            /\ \E status \in Statuses \ {"200"} : \E body \in Bodies :
                   calls[i].ended[k].error = <<"HTTP", status>> \o Prefix(body, 300)
            /\ Len(calls[i].ended[k].error) <= 2 + 300
            /\ Len(calls[i].sent) = k
            /\ calls[i].pc = "done"
            /\ GetIs(calls[i].result, "error", calls[i].ended[k].error)

\* the batch fallback request was answered 500 with a body longer than 300
\* characters
C18_Witness ==
    \E i \in Calls : \E k \in 1..Len(calls[i].ended) :
        /\ IsHttpError(calls[i].ended[k])
        /\ Len(calls[i].ended[k].error) = 2 + 300
        /\ "stream" \notin DOMAIN calls[i].sent[k]
        /\ k = 2

TwoRetryIds == {"openai/gpt-5.2", "google/gemini-3.1-pro-preview"}

\* the first request of call i ended in EmptyResponse with finish reason
\* "length" and a retry request followed exactly when the model is in ids; no
\* request follows an answered first request for another reason
RetriesExactlyFor(i, ids) ==
    /\ (Len(calls[i].ended) >= 1 /\ EmptyLength(calls[i].ended[1]))
       => (Len(calls[i].sent) >= 2 <=> ModelId(i) \in ids)
    /\ (Len(calls[i].sent) >= 2 /\ ~Raised(calls[i].ended[1]))
       => (EmptyLength(calls[i].ended[1]) /\ ModelId(i) \in ids)

\* C17 as claimed: in multi_ai_recs and in multi_ai_writer alike an
\* EmptyResponse with finish reason "length" is retried exactly when the
\* model id is openai/gpt-5.2 or google/gemini-3.1-pro-preview.
C17_SameTwoIdsInBothModules ==
    \A i \in Calls : RetriesExactlyFor(i, TwoRetryIds)

\* C17 as amended: multi_ai_recs retries exactly for openai/gpt-5.2 and
\* google/gemini-3.1-pro-preview, multi_ai_writer exactly for
\* google/gemini-3.1-pro-preview.
C17_RetryIdsPerModule ==
    \A i \in Calls :
        RetriesExactlyFor(i, IF tool = "writer"
                             THEN {"google/gemini-3.1-pro-preview"}
                             ELSE TwoRetryIds)

\* in the writer both models answered EmptyResponse/length: GPT-5.2 returned
\* it, Gemini sent a retry request
C17_Witness ==
    /\ tool = "writer"
    /\ ModelId(1) = "openai/gpt-5.2"
    /\ calls[1].pc = "done"
    /\ EmptyLength(calls[1].ended[1])
    /\ Len(calls[1].sent) = 1
    /\ Len(calls[2].sent) = 2
    /\ EmptyLength(calls[2].ended[1])

\* whole without its leading and trailing whitespace
TrimOf(whole) ==
    CHOOSE text \in {SubSeq(whole, a + 1, b) : a \in 0..Len(whole), b \in 0..Len(whole)} :
        IsTrimOf(text, whole)

HasVisibleChar(text) == \E j \in 1..Len(text) : ~IsSpace(text[j])

\* C20: build_user_prompt emits, in this order, the date stamp, the request
\* text trimmed, and then the SOURCES section with the grounding text trimmed
\* exactly when the grounding text is non-empty after trimming.
C20_PromptLayout ==
    prompt.pc = "built" =>
        LET head == <<"TODAY: ">> \o prompt.today \o <<"\n", "\n", "REQUEST:", "\n">>
                    \o TrimOf(prompt.request_text) \o <<"\n">>
            section == <<"\n", "SOURCES:", "\n">> \o TrimOf(prompt.sources_text) \o <<"\n">>
        IN /\ HasVisibleChar(prompt.sources_text) => prompt.text = head \o section
           /\ ~HasVisibleChar(prompt.sources_text) => prompt.text = head
           /\ (\E j \in 1..Len(prompt.text) : prompt.text[j] = "SOURCES:")
                  <=> HasVisibleChar(prompt.sources_text)

\* a prompt was built from a request with whitespace around it and from
\* sources that hold nothing but whitespace
C20_Witness ==
    /\ prompt.pc = "built"
    /\ prompt.request_text = <<" ", "q", "\n">>
    /\ prompt.sources_text = <<" ", "\n">>

\* a credential the tool requires is set neither in the environment nor in
\* the .env file
CredentialMissing ==
    LET set == cli.environ \cup cli.dotenv IN
    CASE tool \in {"recs", "writer"} -> "OPENROUTER_API_KEY" \notin set
      [] tool = "slides" -> "GEMINI_API_KEY" \notin set /\ "GOOGLE_API_KEY" \notin set
      [] tool = "exa" -> "EXA_API_KEY" \notin set
      [] tool \in {"firecrawl_fetch", "firecrawl_search"} -> "FIRECRAWL_API_KEY" \notin set
      [] OTHER -> "REDDIT_CLIENT_ID" \notin set \/ "REDDIT_CLIENT_SECRET" \notin set

\* C19 as claimed: every tool started without a required credential exits
\* with status 2 and sends no request.
C19_MissingCredentialExits2 ==
    CredentialMissing =>
        /\ cli.requests = 0
        /\ cli.pc \in {"main", "exit"}
        /\ cli.pc = "exit" => cli.exit_code = 2

\* C19 as amended: no tool started without a required credential sends a
\* request; multi_ai_recs, firecrawl_fetch, firecrawl_search and reddit_search
\* exit with status 2, while multi_ai_writer, gemini_slides and exa_search
\* exit with status 1 (status 2 only when argparse turns the command line
\* away before the credential is looked up).
C19_MissingCredentialExits ==
    CredentialMissing =>
        /\ cli.requests = 0
        /\ cli.pc \in {"main", "exit"}
        /\ cli.pc = "exit" =>
              cli.exit_code =
                  IF /\ tool \in {"writer", "slides", "exa"}
                     /\ cli.has_input \/ cli.smoke_test
                  THEN 1 ELSE 2

\* the writer, started with a prompt and without its key, has exited
C19_Witness ==
    /\ tool = "writer"
    /\ CredentialMissing
    /\ cli.has_input
    /\ cli.pc = "exit"

\* a data line whose fragment carries the error envelope err
ErrorLine(err) == [t |-> "json", chunk |-> [t |-> "dict", d |-> [error |-> err]]]

\* what an error envelope says: its message field when it has a non-empty
\* one, its printed form otherwise
SaidBy(err) ==
    IF err.t = "dict" /\ "message" \in DOMAIN err.d /\ err.d.message # <<>>
    THEN err.d.message
    ELSE <<"str(err)">>

\* C21: the first fragment with an error envelope ends the call at once with
\* a Failure holding the envelope's message: whatever content, reasoning and
\* finish reason were accumulated and whatever the model, the call is done in
\* that step, returns nothing but the error, and sends no further request.
C21_InBandErrorAborts ==
    [][\A i \in Calls : \A err \in ErrorEnvelopes :
          StreamLine(i, ErrorLine(err)) =>
              /\ calls'[i].pc = "done"
              /\ calls'[i].result = [error |-> <<"Stream error: ">> \o SaidBy(err)]
              /\ calls'[i].sent = calls[i].sent
              /\ Len(calls'[i].sent) = 1
      ]_vars

\* a retry-eligible model's stream was ended by an error envelope
C21_Witness ==
    \E i \in Calls :
        /\ ModelId(i) \in TwoRetryIds
        /\ calls[i].pc = "done"
        /\ Len(calls[i].ended) = 1
        /\ InBandError(calls[i].ended[1])
        /\ calls[i].result = calls[i].ended[1]

\* the last request call i sent
LastSent(i) == calls[i].sent[Len(calls[i].sent)]

\* C22: the retry budget an outcome is annotated with is the visible budget
\* of the last request the call sent (its max_tokens less the overhead), and
\* the outcome reports a reduced effort only if that request carried the
\* reduced reasoning override.
C22_AnnotationMatchesLastRequest ==
    \A i \in Calls :
        (calls[i].pc = "done" /\ Annotated(calls[i].result)) =>
            /\ GetIs(calls[i].result, "retried_with_max_tokens",
                     LastSent(i).max_tokens - RegisteredOverhead(ModelId(i)))
            /\ "retried_reasoning_effort" \in DOMAIN calls[i].result
                   => GetIs(LastSent(i), "reasoning", [max_tokens |-> 512])

\* C23: every retry request (a request that answers an EmptyResponse with
\* finish reason "length") carries a budget strictly larger than the request
\* it retries; the overhead being the same for both, the values on the wire
\* compare as the visible budgets do.
C23_RetryBudgetStrictlyLarger ==
    \A i \in Calls : \A k \in 2..Len(calls[i].sent) :
        EmptyLength(calls[i].ended[k - 1])
        => calls[i].sent[k].max_tokens > calls[i].sent[k - 1].max_tokens

\* C24: no request of either OpenRouter module carries a reasoning object
\* with both an effort and a max_tokens field, and a request sent with the
\* retry override carries the override as its whole reasoning object.
C24_ReasoningObjectNeverMixed ==
    \A i \in Calls :
        /\ \A k \in 1..Len(calls[i].sent) :
              "reasoning" \in DOMAIN calls[i].sent[k]
              => ~({"effort", "max_tokens"} \subseteq DOMAIN calls[i].sent[k].reasoning)
        /\ calls[i].pc \in {"batch_retry", "retry"}
              => GetIs(LastSent(i), "reasoning", [max_tokens |-> 512])

\* the override went out for the model whose default reasoning object holds
\* an effort field
C24_Witness ==
    \E i \in Calls :
        /\ tool = "recs"
        /\ ModelId(i) = "openai/gpt-5.2"
        /\ calls[i].pc = "batch_retry"
        /\ "reasoning" \in DOMAIN calls[i].sent[1]
        /\ "effort" \in DOMAIN calls[i].sent[1].reasoning

\* the finish reason a data line delivers, "None" for a line that has none
FinishOf(line) ==
    IF /\ line.t = "json"
       /\ line.chunk.t = "dict"
       /\ "error" \notin DOMAIN line.chunk.d
       /\ "choices" \in DOMAIN line.chunk.d
       /\ line.chunk.d.choices # <<>>
       /\ line.chunk.d.choices[1].t = "dict"
       /\ "finish_reason" \in DOMAIN line.chunk.d.choices[1].d
    THEN line.chunk.d.choices[1].d.finish_reason
    ELSE "None"

\* C25: the finish reason a stream reports is the last non-null finish reason
\* received before the terminal marker: a line with a finish reason replaces
\* the one held, a line without one leaves it, and the outcome at the end of
\* the stream reports the one held.  A stream without content that held
\* 'length' and then received 'stop' reports 'stop' and is not retried.
C25_LastFinishReasonWins ==
    [][\A i \in Calls :
        /\ \A line \in Lines :
              (StreamLine(i, line) /\ calls'[i].pc = "stream_read") =>
                  calls'[i].st.finish_reason =
                      IF FinishOf(line) # "None" THEN FinishOf(line)
                      ELSE calls[i].st.finish_reason
        /\ StreamOutcomeStep(i) =>
              /\ GetIs(calls'[i].ended[1], "finish_reason", calls[i].st.finish_reason)
              /\ (calls[i].st.finish_reason = "stop" /\ ~HasVisible(calls[i].st.content_parts))
                    => /\ calls'[i].pc = "done"
                       /\ Len(calls'[i].sent) = 1
                       /\ GetIs(calls'[i].result, "error", EMPTY_RESPONSE)
                       /\ GetIs(calls'[i].result, "finish_reason", "stop") ]_vars

\* a stream of a model with a retry policy ended without content after a
\* reasoning fragment and reported 'stop': the call returned after one request
C25_Witness ==
    \E i \in Calls :
        /\ ModelId(i) \in TwoRetryIds
        /\ calls[i].pc = "done"
        /\ Len(calls[i].sent) = 1
        /\ GetIs(calls[i].result, "error", EMPTY_RESPONSE)
        /\ GetIs(calls[i].result, "finish_reason", "stop")
        /\ GetIs(calls[i].result, "has_reasoning", TRUE)
        /\ GetIs(calls[i].result, "streamed", TRUE)

\* the lines the loop of _stream_inner passes over: a blank line, a comment,
\* a line without the data prefix, a data line that is not JSON, and a
\* fragment without choices
IgnoredLines ==
    {[t |-> "blank"], [t |-> "comment"], [t |-> "noprefix"], [t |-> "badjson"],
     [t |-> "json", chunk |-> [t |-> "dict", d |-> EmptyDict]],
     [t |-> "json", chunk |-> [t |-> "dict", d |-> [choices |-> <<>>]]]}

\* C26: a blank line, a comment line, a line without the data prefix, a data
\* line of invalid JSON and a fragment without choices each leave the
\* accumulated content, reasoning and finish reason as they are and do not
\* end the stream; the terminal marker ends the reading with the outcome of
\* what was accumulated before it, and the outcome of the stream, once
\* there, never changes.
C26_IgnoredLinesAndTerminalMarker ==
    [][\A i \in Calls :
        /\ calls[i].pc = "stream_read" =>
              \A line \in IgnoredLines :
                  StreamStep(calls[i].st, line) = [ctl |-> "continue", st |-> calls[i].st]
        /\ \A line \in IgnoredLines :
              StreamLine(i, line) => calls'[i] = calls[i]
        /\ StreamLine(i, [t |-> "done"]) =>
              /\ calls'[i].pc # "stream_read"
              /\ calls'[i].ended = <<StreamFinal(calls[i].st)>>
        /\ calls[i].ended # <<>> =>
              /\ calls'[i].pc # "stream_read"
              /\ calls'[i].ended # <<>>
              /\ calls'[i].ended[1] = calls[i].ended[1] ]_vars

\* a stream that holds content, reasoning and a finish reason is being read,
\* and an ignored line can arrive
C26_Witness ==
    \E i \in Calls :
        /\ calls[i].pc = "stream_read"
        /\ calls[i].st.content_parts # <<>>
        /\ calls[i].st.reasoning_parts # <<>>
        /\ calls[i].st.finish_reason # "None"
        /\ \A line \in IgnoredLines : ENABLED StreamLine(i, line)

\* C27: a call of the writer's call_openrouter sends at most two requests;
\* it sends the second only after the first returned EmptyResponse with
\* finish reason "length", and the call returns the outcome of the second
\* whatever it is, a second EmptyResponse with "length" included.
C27_WriterAtMostTwoRequests ==
    \A i \in Calls :
        /\ Len(calls[i].sent) <= 2
        /\ Len(calls[i].sent) = 2 =>
              /\ calls[i].ended # <<>>
              /\ EmptyLength(calls[i].ended[1])
        /\ calls[i].pc = "retry" => Len(calls[i].sent) = 2 /\ Len(calls[i].ended) = 1
        /\ (calls[i].pc = "done" /\ Len(calls[i].sent) = 2) =>
              /\ Len(calls[i].ended) = 2
              /\ calls[i].result =
                    IF Raised(calls[i].ended[2])
                    THEN WriterExceptResult(calls[i].ended[2].exception)
                    ELSE SetKey(calls[i].ended[2], "retried_with_max_tokens",
                                WriterRetryMaxTokens(max_tokens))

\* the retry request was answered by a second EmptyResponse with finish
\* reason "length", and the call returned it
C27_Witness ==
    \E i \in Calls :
        /\ tool = "writer"
        /\ calls[i].pc = "done"
        /\ Len(calls[i].sent) = 2
        /\ EmptyLength(calls[i].ended[2])
        /\ EmptyLength(calls[i].result)

\* C29: in the result of run_models, the model id the metadata records under a
\* label is the id of the call whose outcome the results hold under that
\* label, also when several model specs share the label.
C29_MetaModelMatchesStoredOutcome ==
    /\ [][AwaitTask =>
            (fan_pc' # "raised" => out'[Label(fan_idx)] = calls[fan_idx].result)]_vars
    /\ [](fan_pc = "returned" =>
            /\ DOMAIN returned.meta.models = DOMAIN returned.results
            /\ \A l \in DOMAIN returned.results :
                  \E i \in Calls :
                      /\ Label(i) = l
                      /\ \A j \in Calls : Label(j) = l => j <= i
                      /\ returned.results[l] = calls[i].result
                      /\ returned.meta.models[l] = ModelId(i))

\* two specs with different model ids share a label, their calls ended with
\* different outcomes, and run_models has returned
C29_Witness ==
    /\ fan_pc = "returned"
    /\ \E i, j \in Calls :
          /\ i < j
          /\ Label(i) = Label(j)
          /\ ModelId(i) # ModelId(j)
          /\ calls[i].result # calls[j].result

\* C28: when every request comes to its end, every model call of the
\* dispatcher returns an outcome after at most three requests, and run_models
\* returns.
C28_EveryCallReturns ==
    /\ [](\A i \in Calls : Len(calls[i].sent) <= 3)
    /\ <>(fan_pc = "returned" /\ \A i \in Calls : calls[i].pc = "done")

\* C30: generate_with_evaluation runs at most max_cycles generation rounds and
\* always returns a triple, for every max_cycles: the error as soon as a round
\* yields no image, the image as soon as a round has no high-severity
\* violation, and the image of the last round when high-severity violations
\* last through round max_cycles.
C30_EvaluationLoopReturnsTriple ==
    /\ [](slides.pc # "raised")
    /\ [](slides.rounds <= Max(slides.max_cycles, 0))
    /\ [](slides.pc = "returned" =>
            /\ Len(slides.ret) = 3
            /\ \/ slides.ret[1] = 0 /\ slides.ret[2] # "None" /\ slides.ret[3] = "None"
               \/ slides.ret[1] = slides.rounds /\ slides.ret[2] = "None"
                     /\ slides.ret[3] = slides.model_used)
    /\ [][\A attempts \in Attempts : \A resp \in EvalResponses :
            /\ (SlidesRound(attempts) /\ \A k \in DOMAIN attempts : ~attempts[k])
                  => (slides'.pc = "returned" /\ slides'.ret[1] = 0)
            /\ (/\ SlidesEvaluate(resp)
                /\ \A k \in 1..Len(evaluate_slide(resp)) : evaluate_slide(resp)[k].t = "dict"
                /\ HighSeverity(evaluate_slide(resp)) = <<>>)
                  => (slides'.pc = "returned" /\ slides'.ret[1] = slides.rounds)
            /\ (slides.pc = "loop" /\ slides.cycle >= slides.max_cycles)
                  => slides'.pc = "returned" ]_vars

====
